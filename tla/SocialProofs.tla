---------------------------- MODULE SocialProofs ----------------------------
(***************************************************************************)
(* Theorems about feeds, tokens, cached posts and moderation, for any      *)
(* number of overlapping requests and faults.                              *)
(***************************************************************************)
EXTENDS Social, FiniteSetTheorems, WellFoundedInduction, TLAPS

Refreshing(h) == req[h].pc \in {"token", "fetch", "store", "trim", "success", "failure"}
Creating(h) == req[h].pc \in {"seal", "insert"}
Owns(f, t) == Exists(f) /\ feeds[f].token = t

\* Ids are taken in ascending order, so nothing mentions one that is still to come.
Numbered ==
  /\ \A f \in FeedIds : Exists(f) => f <= last.feed /\ feeds[f].token <= last.token
  /\ \A t \in TokenIds : tokens[t] # NoToken => t <= last.token
  /\ \A h \in Requests : req[h].feed <= last.feed /\ req[h].row.token <= last.token

\* The row that a refresh goes by: whether a feed is moderated never changes.
ModerationKnown ==
  \A h \in Requests : Refreshing(h) =>
    /\ req[h].feed \in FeedIds
    /\ Exists(req[h].feed) => req[h].row.moderation = feeds[req[h].feed].moderation

\* Nothing is remembered of a post that is not cached.
Forgotten ==
  \A f \in FeedIds, x \in Posts : cache[f][x] = NoPost => decided[f][x] = "none"

\* The token of a feed that is being created is its request's alone.
CreationAlone ==
  \A h \in Requests : Creating(h) =>
    /\ req[h].name \in Names
    /\ req[h].row.token \in TokenIds
    /\ tokens[req[h].row.token] # NoToken
    /\ req[h].pc = "insert" => Readable(req[h].row.token)
    /\ \A f \in FeedIds : ~Owns(f, req[h].row.token)
    /\ \A g \in Requests \ {h} : Creating(g) \/ req[g].pc \in {"delete", "unseal"} =>
         req[g].row.token # req[h].row.token

\* A deletion holds the token of the feed that it deletes, and of no other.
DeletionSound ==
  \A h \in Requests :
    /\ req[h].pc = "delete" =>
         /\ req[h].feed \in FeedIds
         /\ Exists(req[h].feed) => feeds[req[h].feed].token = req[h].row.token
         /\ req[h].row.token # None => \A f \in FeedIds \ {req[h].feed} : ~Owns(f, req[h].row.token)
    /\ req[h].pc = "unseal" =>
         /\ req[h].row.token \in TokenIds
         /\ \A f \in FeedIds : ~Owns(f, req[h].row.token)

-----------------------------------------------------------------------------
(* Types                                                                   *)

Rows == [token: TokenIds \cup {None}, moderation: {"manual", "auto"}, failures: 0..MaxFailures]

\* What has no row is none of the rows there can be.
LEMMA Nulls ==
  /\ Idle \in Request
  /\ NoRow \in Rows
  /\ NoPost \notin Post
  /\ NoFeed \notin Feed
  /\ NoToken \notin Token
BY SocialAssumption DEF Idle, Request, NoRow, NoPost, Post, NoFeed, Feed, NoToken, Token, None, States, Rows

\* A time to wait is a number, whatever the count of failures.
LEMMA Waits == \A n \in Nat : NextAttempt(n) \in Nat
BY SocialAssumption DEF NextAttempt, BackoffFor

\* What a feed's row says of it.
LEMMA FeedFields ==
  ASSUME TypeOK, NEW f \in FeedIds, Exists(f)
  PROVE  /\ feeds[f] \in Feed
         /\ feeds[f].token \in TokenIds \cup {None}
         /\ feeds[f].moderation \in {"manual", "auto"}
         /\ Row(f) \in Rows
         /\ Row(f).token = feeds[f].token
         /\ Row(f).moderation = feeds[f].moderation
         /\ Row(f).failures \in 0..MaxFailures
BY DEF TypeOK, Exists, Feed, Row, Rows

\* The changes of a feed's row that leave its token and its moderation as they are.
SameFeeds ==
  \A f \in FeedIds : /\ Exists(f)' <=> Exists(f)
                     /\ Exists(f) => /\ feeds'[f].token = feeds[f].token
                                     /\ feeds'[f].moderation = feeds[f].moderation

LEMMA OneFeed ==
  ASSUME TypeOK, NEW f \in FeedIds, Exists(f), NEW q \in Feed,
         q.token = feeds[f].token, q.moderation = feeds[f].moderation,
         feeds' = [feeds EXCEPT ![f] = q]
  PROVE  feeds' \in [FeedIds -> Feed \cup {NoFeed}] /\ SameFeeds
<1>1. feeds \in [FeedIds -> Feed \cup {NoFeed}]
  BY DEF TypeOK
<1>2. feeds' \in [FeedIds -> Feed \cup {NoFeed}] /\ feeds'[f] = q /\ \A g \in FeedIds \ {f} : feeds'[g] = feeds[g]
  BY <1>1
<1>3. q # NoFeed
  BY Nulls
<1> QED BY <1>2, <1>3 DEF SameFeeds, Exists

\* Recording an attempt.
LEMMA RecordedFeeds ==
  ASSUME TypeOK, NEW f \in FeedIds, NEW n \in 0..MaxFailures,
         NEW state \in {"idle", "ok", "error"}, Recorded(f, state, n)
  PROVE  feeds' \in [FeedIds -> Feed \cup {NoFeed}] /\ SameFeeds
<1>1. n \in Nat /\ NextAttempt(n) \in Nat
  BY SocialAssumption, Waits
<1>2. CASE Exists(f)
  <2> DEFINE q == [feeds[f] EXCEPT !.state = state, !.failures = n, !.wait = NextAttempt(n)]
  <2>1. feeds' = [feeds EXCEPT ![f] = q]
    BY <1>2 DEF Recorded
  <2>2. q \in Feed /\ q.token = feeds[f].token /\ q.moderation = feeds[f].moderation
    <3>1. feeds[f] \in Feed
      BY <1>2, FeedFields
    <3> QED BY <1>1, <3>1 DEF Feed
  <2> QED BY <1>2, <2>1, <2>2, OneFeed
<1>3. CASE ~Exists(f)
  BY <1>3 DEF Recorded, TypeOK, SameFeeds, Exists
<1> QED BY <1>2, <1>3

\* A new feed takes the next id.
LEMMA InsertedFeeds ==
  ASSUME TypeOK, Numbered, NEW name \in Names, NEW t \in TokenIds \cup {None}, NEW mode \in {"manual", "auto"},
         InsertFeed(name, t, mode), last' = [last EXCEPT !.feed = @ + 1]
  PROVE  /\ feeds' \in [FeedIds -> Feed \cup {NoFeed}] /\ last' \in [feed: 0..MaxFeeds, token: 0..MaxTokens]
         /\ last.feed + 1 \in FeedIds /\ ~Exists(last.feed + 1) /\ feeds'[last.feed + 1] # NoFeed
         /\ feeds'[last.feed + 1].token = t
         /\ last'.token = last.token /\ last'.feed = last.feed + 1
         /\ \A f \in FeedIds \ {last.feed + 1} : feeds'[f] = feeds[f]
<1> DEFINE n == last.feed + 1
           q == [name |-> name, token |-> t, enabled |-> TRUE, moderation |-> mode,
                 failures |-> 0, state |-> "idle", wait |-> 0]
<1>1. last \in [feed: 0..MaxFeeds, token: 0..MaxTokens] /\ feeds \in [FeedIds -> Feed \cup {NoFeed}]
  BY DEF TypeOK
<1>2. last.feed \in Nat /\ last.feed < MaxFeeds
  BY <1>1, SocialAssumption DEF InsertFeed
<1>3. n \in FeedIds /\ ~Exists(n)
  BY <1>2, SocialAssumption DEF FeedIds, Numbered
<1>4. q \in Feed
  BY SocialAssumption DEF Feed
<1>5. q # NoFeed
  BY <1>4, Nulls
<1>6. feeds' = [feeds EXCEPT ![n] = q]
  BY DEF InsertFeed
<1> HIDE DEF q
<1>7. feeds'[n] = q /\ feeds' \in [FeedIds -> Feed \cup {NoFeed}] /\ \A f \in FeedIds \ {n} : feeds'[f] = feeds[f]
  BY <1>1, <1>3, <1>4, <1>6
<1>8. q.token = t
  BY DEF q
<1>9. last' \in [feed: 0..MaxFeeds, token: 0..MaxTokens] /\ last'.token = last.token /\ last'.feed = n
  BY <1>1, <1>2, SocialAssumption
<1> QED BY <1>3, <1>5, <1>7, <1>8, <1>9

\* A change of some requests' places, whatever else happens.
LEMMA OneRequest ==
  ASSUME TypeOK, NEW h \in Requests, NEW r \in Request, Become(h, r)
  PROVE  /\ req' \in [Requests -> Request] /\ req'[h] = r
         /\ \A g \in Requests \ {h} : req'[g] = req[g]
BY DEF TypeOK, Become

LEMMA SameRows == UNCHANGED feeds => SameFeeds
BY DEF SameFeeds, Exists

LEMMA IdleFields == Idle.feed = 0 /\ Idle.row.token = 0 /\ Idle.pc = "idle"
BY DEF Idle, NoRow, None

LEMMA LastTypes == TypeOK => last.feed \in Nat /\ last.token \in Nat
BY SocialAssumption DEF TypeOK

-----------------------------------------------------------------------------
(* Refreshes                                                               *)

\* Steps that leave the tokens and their owners alone.
Owners == Numbered /\ ModerationKnown /\ CreationAlone /\ DeletionSound /\ TokenOwned

LEMMA SameOwners ==
  ASSUME TypeOK, Owners, SameFeeds, UNCHANGED <<tokens, last>>,
         req' \in [Requests -> Request],
         \A t \in TokenIds : (\E h \in Requests : req[h].pc \in {"seal", "insert", "unseal"} /\ req[h].row.token = t)
                                \/ t \in left
                             => (\E h \in Requests : req'[h].pc \in {"seal", "insert", "unseal"} /\ req'[h].row.token = t)
                                \/ t \in left',
         \A h \in Requests :
           \/ req'[h] = req[h]
           \/ /\ req'[h].pc \notin {"seal", "insert", "delete", "unseal"}
              /\ req'[h].feed <= last.feed /\ req'[h].row.token <= last.token
              /\ req'[h].pc # "idle" =>
                   /\ req'[h].feed \in FeedIds
                   /\ Exists(req'[h].feed) => req'[h].row.moderation = feeds[req'[h].feed].moderation
  PROVE  Owners'
<1>1. \A f \in FeedIds : /\ feeds'[f] # NoFeed <=> feeds[f] # NoFeed
                         /\ feeds[f] # NoFeed => /\ feeds'[f].token = feeds[f].token
                                                 /\ feeds'[f].moderation = feeds[f].moderation
  BY DEF SameFeeds, Exists
<1>2. Numbered'
  BY <1>1 DEF Numbered, Owners, Exists
<1>3. ModerationKnown'
  <2> SUFFICES ASSUME NEW g \in Requests, Refreshing(g)'
               PROVE  /\ req'[g].feed \in FeedIds
                      /\ feeds'[req'[g].feed] # NoFeed => req'[g].row.moderation = feeds'[req'[g].feed].moderation
    BY DEF ModerationKnown, Exists
  <2>1. CASE req'[g] = req[g]
    BY <1>1, <2>1 DEF ModerationKnown, Owners, Refreshing, Exists
  <2>2. CASE req'[g] # req[g]
    BY <1>1, <2>2 DEF Exists, Refreshing
  <2> QED BY <2>1, <2>2
<1>4. CreationAlone'
  <2> SUFFICES ASSUME NEW h \in Requests, Creating(h)'
               PROVE  /\ req'[h].name \in Names
                      /\ req'[h].row.token \in TokenIds
                      /\ tokens'[req'[h].row.token] # NoToken
                      /\ req'[h].pc = "insert" => (tokens'[req'[h].row.token] # NoToken /\ tokens'[req'[h].row.token].sealed)
                      /\ \A f \in FeedIds : ~(feeds'[f] # NoFeed /\ feeds'[f].token = req'[h].row.token)
                      /\ \A g \in Requests \ {h} : Creating(g)' \/ req'[g].pc \in {"delete", "unseal"} =>
                           req'[g].row.token # req'[h].row.token
    BY DEF CreationAlone, Owns, Exists, Readable
  <2>1. req'[h] = req[h] /\ Creating(h)
    BY DEF Creating
  <2> QED BY <1>1, <2>1 DEF CreationAlone, Owners, Creating, Readable, Owns, Exists
<1>5. DeletionSound'
  <2> SUFFICES ASSUME NEW h \in Requests
               PROVE  /\ req'[h].pc = "delete" =>
                           /\ req'[h].feed \in FeedIds
                           /\ feeds'[req'[h].feed] # NoFeed => feeds'[req'[h].feed].token = req'[h].row.token
                           /\ req'[h].row.token # None => \A f \in FeedIds \ {req'[h].feed} : ~(feeds'[f] # NoFeed /\ feeds'[f].token = req'[h].row.token)
                      /\ req'[h].pc = "unseal" =>
                           /\ req'[h].row.token \in TokenIds
                           /\ \A f \in FeedIds : ~(feeds'[f] # NoFeed /\ feeds'[f].token = req'[h].row.token)
    BY DEF DeletionSound, Owns, Exists
  <2>1. CASE req'[h] = req[h]
    BY <1>1, <2>1 DEF DeletionSound, Owners, Owns, Exists
  <2>2. CASE req'[h] # req[h]
    BY <2>2
  <2> QED BY <2>1, <2>2
<1>6. TokenOwned'
  <2>1. \A f \in FeedIds : feeds'[f] # NoFeed /\ feeds'[f].token # None => tokens'[feeds'[f].token] # NoToken /\ tokens'[feeds'[f].token].sealed
    BY <1>1 DEF TokenOwned, Owners, Readable, Exists
  <2>2. \A f, g \in FeedIds : feeds'[f] # NoFeed /\ feeds'[g] # NoFeed /\ feeds'[f].token = feeds'[g].token
                              => f = g \/ feeds'[f].token = None
    BY <1>1 DEF TokenOwned, Owners, Exists
  <2>3. ASSUME NEW t \in TokenIds, tokens'[t] # NoToken
        PROVE  \/ \E f \in FeedIds : feeds'[f] # NoFeed /\ feeds'[f].token = t
               \/ \E h \in Requests : req'[h].pc \in {"seal", "insert", "unseal"} /\ req'[h].row.token = t
               \/ t \in left'
    BY <1>1, <2>3 DEF TokenOwned, Owners, Exists
  <2> QED BY <2>1, <2>2, <2>3 DEF TokenOwned, Exists, Readable
<1> QED BY <1>2, <1>3, <1>4, <1>5, <1>6 DEF Owners

\* What no step of a refresh disturbs.
Quiet(h) ==
  /\ feeds' \in [FeedIds -> Feed \cup {NoFeed}] /\ SameFeeds
  /\ UNCHANGED <<tokens, last, left, kinds>>
  /\ req' \in [Requests -> Request]
  /\ \A g \in Requests \ {h} : req'[g] = req[g]
  /\ req[h].pc \notin {"seal", "insert", "delete", "unseal"}
  /\ req'[h].pc \notin {"seal", "insert", "delete", "unseal"}
  /\ req'[h].feed <= last.feed /\ req'[h].row.token <= last.token
  /\ req'[h].pc # "idle" => /\ req'[h].feed \in FeedIds
                            /\ Exists(req'[h].feed) => req'[h].row.moderation = feeds[req'[h].feed].moderation

LEMMA QuietKeepsOwners ==
  ASSUME TypeOK, Owners, NEW h \in Requests, Quiet(h)
  PROVE  Owners'
<1>1. \A g \in Requests : req[g].pc \in {"seal", "insert", "unseal"} => req'[g] = req[g]
  BY DEF Quiet
<1>2. \A g \in Requests :
        \/ req'[g] = req[g]
        \/ /\ req'[g].pc \notin {"seal", "insert", "delete", "unseal"}
           /\ req'[g].feed <= last.feed /\ req'[g].row.token <= last.token
           /\ req'[g].pc # "idle" =>
                /\ req'[g].feed \in FeedIds
                /\ Exists(req'[g].feed) => req'[g].row.moderation = feeds[req'[g].feed].moderation
  BY DEF Quiet
<1>3. SameFeeds /\ UNCHANGED <<tokens, last, left>> /\ req' \in [Requests -> Request]
  BY DEF Quiet
<1> QED BY <1>1, <1>2, <1>3, SameOwners

LEMMA BeginStep ==
  ASSUME TypeOK, Owners, NEW h \in Requests, NEW f \in FeedIds,
         Poll(h, f) \/ RefreshNow(h, f)
  PROVE  Quiet(h) /\ req[h].pc = "idle" /\ UNCHANGED <<cache, history, bounds>>
<1>1. BeginRefresh(h, f) /\ Exists(f)
  BY DEF Poll, RefreshNow, DueFeeds
<1> DEFINE r == [Idle EXCEPT !.pc = IF feeds[f].token = None THEN "fetch" ELSE "token",
                             !.feed = f, !.row = Row(f)]
<1>2. Row(f) \in Rows /\ Row(f).token = feeds[f].token /\ Row(f).moderation = feeds[f].moderation
  BY <1>1, FeedFields
<1>3. r \in Request /\ r.feed = f /\ r.row = Row(f) /\ r.pc \in {"token", "fetch"}
  BY <1>2, Nulls DEF Request, Rows, Idle
<1>4. Become(h, r) /\ UNCHANGED <<feeds, tokens, cache, last, history, bounds>> /\ req[h].pc = "idle"
  BY <1>1 DEF BeginRefresh, At
<1> HIDE DEF r
<1>5. req' \in [Requests -> Request] /\ req'[h] = r /\ \A g \in Requests \ {h} : req'[g] = req[g]
  BY <1>3, <1>4, OneRequest
<1>6. f <= last.feed /\ feeds[f].token <= last.token
  BY <1>1 DEF Numbered, Owners
<1>7. SameFeeds /\ feeds' \in [FeedIds -> Feed \cup {NoFeed}] /\ UNCHANGED <<left, kinds>>
  BY <1>4, SameRows DEF history, bounds, TypeOK
<1> QED BY <1>1, <1>2, <1>3, <1>4, <1>5, <1>6, <1>7 DEF Quiet

\* A refresh that goes on with its request.
LEMMA GoesOn ==
  ASSUME TypeOK, Owners, NEW h \in Requests, Refreshing(h),
         NEW r \in Request, Become(h, r), r.feed = req[h].feed, r.row = req[h].row,
         r.pc \in {"fetch", "store", "trim", "success", "failure"},
         UNCHANGED <<feeds, tokens, last, left, kinds>>
  PROVE  Quiet(h)
<1>1. req' \in [Requests -> Request] /\ req'[h] = r /\ \A g \in Requests \ {h} : req'[g] = req[g]
  BY OneRequest
<1>2. SameFeeds /\ feeds' \in [FeedIds -> Feed \cup {NoFeed}]
  BY SameRows DEF TypeOK
<1>3. /\ req[h].feed \in FeedIds
      /\ Exists(req[h].feed) => req[h].row.moderation = feeds[req[h].feed].moderation
      /\ req[h].feed <= last.feed /\ req[h].row.token <= last.token
  BY DEF Owners, ModerationKnown, Numbered
<1> QED BY <1>1, <1>2, <1>3 DEF Quiet, Refreshing

\* The steps between the source and the cache.
LEMMA FetchStep ==
  ASSUME TypeOK, Owners, NEW h \in Requests, DecryptToken(h) \/ Fetch(h) \/ FailFetch(h)
  PROVE  Quiet(h) /\ req[h].pc \in {"token", "fetch"} /\ UNCHANGED <<cache, history, bounds>>
<1>1. req[h] \in Request
  BY DEF TypeOK
<1>2. CASE DecryptToken(h) \/ FailFetch(h)
  <2>1. PICK pc \in {"fetch", "failure"} : Goto(h, pc)
    BY <1>2 DEF DecryptToken, FailFetch
  <2> DEFINE r == [req[h] EXCEPT !.pc = pc]
  <2>2. r \in Request /\ r.feed = req[h].feed /\ r.row = req[h].row /\ r.pc = pc
    BY <1>1 DEF Request
  <2>3. Become(h, r)
    BY <2>1 DEF Goto
  <2> HIDE DEF r
  <2>4. Refreshing(h) /\ req[h].pc \in {"token", "fetch"} /\ UNCHANGED <<feeds, tokens, last, cache, history, bounds>>
    BY <1>2 DEF DecryptToken, FailFetch, At, Refreshing
  <2> QED BY <2>2, <2>3, <2>4, GoesOn DEF history, bounds
<1>3. CASE Fetch(h)
  <2>1. PICK S \in SUBSET Posts :
          Become(h, [req[h] EXCEPT !.pc = IF S = {} THEN "trim" ELSE "store", !.todo = S])
    BY <1>3 DEF Fetch
  <2>2. PICK pc \in {"trim", "store"} : pc = IF S = {} THEN "trim" ELSE "store"
    OBVIOUS
  <2> DEFINE r == [req[h] EXCEPT !.pc = pc, !.todo = S]
  <2>3. r \in Request /\ r.feed = req[h].feed /\ r.row = req[h].row /\ r.pc = pc
    BY <1>1 DEF Request
  <2>4. Become(h, r)
    BY <2>1, <2>2
  <2> HIDE DEF r
  <2>5. Refreshing(h) /\ req[h].pc = "fetch" /\ UNCHANGED <<feeds, tokens, last, cache, history, bounds>>
    BY <1>3 DEF Fetch, At, Refreshing
  <2> QED BY <2>2, <2>3, <2>4, <2>5, GoesOn DEF history, bounds
<1> QED BY <1>2, <1>3

LEMMA RecordStep ==
  ASSUME TypeOK, Owners, NEW h \in Requests, RecordSuccess(h) \/ RecordFailure(h)
  PROVE  Quiet(h) /\ req[h].pc \in {"success", "failure"} /\ UNCHANGED <<cache, history, bounds>>
<1>1. req[h] \in Request /\ req[h].row.failures \in 0..MaxFailures
  BY DEF TypeOK, Request
<1>2. /\ req[h].pc \in {"success", "failure"} /\ Refreshing(h) /\ Become(h, Idle)
      /\ UNCHANGED <<tokens, cache, last, history, bounds>>
  BY DEF RecordSuccess, RecordFailure, At, Refreshing
<1>3. req[h].feed \in FeedIds
  BY <1>2 DEF Owners, ModerationKnown
<1>4. \E n \in 0..MaxFailures, state \in {"idle", "ok", "error"} : Recorded(req[h].feed, state, n)
  BY <1>1, SocialAssumption DEF RecordSuccess, RecordFailure
<1>5. feeds' \in [FeedIds -> Feed \cup {NoFeed}] /\ SameFeeds
  BY <1>3, <1>4, RecordedFeeds
<1>6. req' \in [Requests -> Request] /\ req'[h] = Idle /\ \A g \in Requests \ {h} : req'[g] = req[g]
  BY <1>2, Nulls, OneRequest
<1> QED BY <1>2, <1>5, <1>6, IdleFields, LastTypes DEF Quiet, history, bounds

LEMMA PostStep ==
  ASSUME TypeOK, Owners, NEW h \in Requests, UpsertPost(h) \/ TrimCache(h) \/ SkipStatement(h)
  PROVE  Quiet(h)
<1>1. req[h] \in Request
  BY DEF TypeOK
<1>2. PICK r \in Request : /\ Become(h, r) /\ r.feed = req[h].feed /\ r.row = req[h].row
                           /\ r.pc \in {"fetch", "store", "trim", "success", "failure"}
  <2>1. CASE UpsertPost(h)
    <3>1. PICK x \in req[h].todo :
            LET rest == req[h].todo \ {x} IN
            Become(h, [req[h] EXCEPT !.todo = rest, !.pc = IF rest = {} THEN "trim" ELSE "store"])
      BY <2>1 DEF UpsertPost
    <3>2. PICK pc \in {"trim", "store"}, rest \in SUBSET Posts :
            Become(h, [req[h] EXCEPT !.todo = rest, !.pc = pc])
      <4>1. req[h].todo \ {x} \in SUBSET Posts
        BY <1>1 DEF Request
      <4> QED BY <3>1, <4>1
    <3> DEFINE r == [req[h] EXCEPT !.todo = rest, !.pc = pc]
    <3>3. r \in Request /\ r.feed = req[h].feed /\ r.row = req[h].row /\ r.pc = pc
      BY <1>1 DEF Request
    <3> QED BY <3>2, <3>3
  <2>2. CASE TrimCache(h) \/ SkipStatement(h)
    <3>1. PICK pc \in {"trim", "success"} : Goto(h, pc)
      BY <2>2 DEF TrimCache, SkipStatement
    <3> DEFINE r == [req[h] EXCEPT !.pc = pc]
    <3>2. r \in Request /\ r.feed = req[h].feed /\ r.row = req[h].row /\ r.pc = pc
      BY <1>1 DEF Request
    <3> QED BY <3>1, <3>2 DEF Goto
  <2> QED BY <2>1, <2>2
<1>3. Refreshing(h) /\ UNCHANGED <<feeds, tokens, last, left, kinds>>
  BY DEF UpsertPost, TrimCache, SkipStatement, At, Refreshing, history, bounds
<1> QED BY <1>2, <1>3, GoesOn

-----------------------------------------------------------------------------
(* Creations and deletions                                                 *)

\* A feed is inserted with a token that nothing else has, or with none.
LEMMA Created ==
  ASSUME TypeOK, Owners,
         NEW name \in Names, NEW t \in TokenIds \cup {None}, NEW mode \in {"manual", "auto"},
         InsertFeed(name, t, mode), last' = [last EXCEPT !.feed = @ + 1], UNCHANGED <<tokens, left>>,
         t <= last.token,
         t # None => /\ Readable(t) /\ \A f \in FeedIds : ~Owns(f, t)
                     /\ \A g \in Requests : req'[g].pc \in {"seal", "insert", "delete", "unseal"} => req'[g].row.token # t,
         \A g \in Requests : req'[g] = req[g] \/ (req[g].pc = "insert" /\ req[g].row.token = t /\ req'[g] = Idle)
  PROVE  Owners'
<1> DEFINE n == last.feed + 1
<1>1. /\ n \in FeedIds /\ ~Exists(n) /\ feeds'[n] # NoFeed /\ feeds'[n].token = t
      /\ last'.token = last.token /\ last'.feed = n
      /\ \A f \in FeedIds \ {n} : feeds'[f] = feeds[f]
  BY InsertedFeeds DEF Owners
<1>2. last.feed \in Nat /\ last.token \in Nat
  BY LastTypes
<1>3. \A h \in Requests : req[h].feed \in FeedIds \cup {None} /\ req[h].feed <= last.feed /\ req[h].feed # n
  BY <1>2 DEF Owners, Numbered, TypeOK, Request, FeedIds, None
<1> HIDE DEF n
<1>4. Numbered'
  <2>1. ASSUME NEW f \in FeedIds, feeds'[f] # NoFeed  PROVE  f <= n /\ feeds'[f].token <= last.token
    <3>1. CASE f = n
      BY <1>1, <3>1 DEF FeedIds
    <3>2. CASE f # n
      BY <1>1, <1>2, <2>1, <3>2 DEF Owners, Numbered, Exists, FeedIds, n
    <3> QED BY <3>1, <3>2
  <2>2. \A h \in Requests : req'[h].feed <= n /\ req'[h].row.token <= last.token
    BY <1>1, <1>2, <1>3, IdleFields DEF Owners, Numbered, n, FeedIds, None
  <2> QED BY <1>1, <2>1, <2>2 DEF Owners, Numbered, Exists
<1>5. ModerationKnown'
  BY <1>1, <1>3, IdleFields DEF Owners, ModerationKnown, Refreshing, Exists
<1>6. CreationAlone'
  <2> SUFFICES ASSUME NEW h \in Requests, req'[h].pc \in {"seal", "insert"}
               PROVE  /\ req'[h].name \in Names
                      /\ req'[h].row.token \in TokenIds
                      /\ tokens[req'[h].row.token] # NoToken
                      /\ req'[h].pc = "insert" => Readable(req'[h].row.token)
                      /\ \A f \in FeedIds : ~(feeds'[f] # NoFeed /\ feeds'[f].token = req'[h].row.token)
                      /\ \A g \in Requests \ {h} : req'[g].pc \in {"seal", "insert", "delete", "unseal"} =>
                           req'[g].row.token # req'[h].row.token
    BY DEF CreationAlone, Creating, Owns, Exists, Readable
  <2>1. req'[h] = req[h] /\ Creating(h)
    BY IdleFields DEF Creating
  <2>2. /\ req[h].name \in Names
        /\ req[h].row.token \in TokenIds /\ tokens[req[h].row.token] # NoToken
        /\ req[h].pc = "insert" => Readable(req[h].row.token)
        /\ \A f \in FeedIds : ~(feeds[f] # NoFeed /\ feeds[f].token = req[h].row.token)
        /\ \A g \in Requests \ {h} : req[g].pc \in {"seal", "insert", "delete", "unseal"} =>
             req[g].row.token # req[h].row.token
    BY <2>1 DEF Owners, CreationAlone, Creating, Owns, Exists
  <2>3. t # req[h].row.token
    BY <2>1, <2>2 DEF TokenIds, None
  <2> QED BY <1>1, <2>1, <2>2, <2>3, IdleFields
<1>7. DeletionSound'
  <2> SUFFICES ASSUME NEW h \in Requests, req'[h].pc \in {"delete", "unseal"}
               PROVE  /\ req'[h].pc = "delete" =>
                           /\ req'[h].feed \in FeedIds
                           /\ feeds'[req'[h].feed] # NoFeed => feeds'[req'[h].feed].token = req'[h].row.token
                           /\ req'[h].row.token # None => \A f \in FeedIds \ {req'[h].feed} : ~(feeds'[f] # NoFeed /\ feeds'[f].token = req'[h].row.token)
                      /\ req'[h].pc = "unseal" =>
                           /\ req'[h].row.token \in TokenIds
                           /\ \A f \in FeedIds : ~(feeds'[f] # NoFeed /\ feeds'[f].token = req'[h].row.token)
    BY DEF DeletionSound, Owns, Exists
  <2>1. req'[h] = req[h]
    BY IdleFields
  <2>2. req[h].row.token # None => t # req[h].row.token
    BY <2>1
  <2>3. req[h].row.token \in TokenIds => req[h].row.token # None
    BY DEF TokenIds, None
  <2> QED BY <1>1, <1>3, <2>1, <2>2, <2>3 DEF Owners, DeletionSound, Owns, Exists
<1>8. TokenOwned'
  <2>1. \A f \in FeedIds : feeds'[f] # NoFeed /\ feeds'[f].token # None => Readable(feeds'[f].token)
    BY <1>1 DEF Owners, TokenOwned, Exists
  <2>2. \A f, g \in FeedIds : feeds'[f] # NoFeed /\ feeds'[g] # NoFeed /\ feeds'[f].token = feeds'[g].token
                              => f = g \/ feeds'[f].token = None
    BY <1>1 DEF Owners, TokenOwned, Exists, Owns
  <2>3. ASSUME NEW u \in TokenIds, tokens[u] # NoToken
        PROVE  \/ \E f \in FeedIds : feeds'[f] # NoFeed /\ feeds'[f].token = u
               \/ \E h \in Requests : req'[h].pc \in {"seal", "insert", "unseal"} /\ req'[h].row.token = u
               \/ u \in left
    <3>1. CASE u = t
      BY <1>1, <3>1
    <3>2. CASE u # t
      BY <1>1, <2>3, <3>2 DEF Owners, TokenOwned, Exists
    <3> QED BY <3>1, <3>2
  <2> QED BY <2>1, <2>2, <2>3 DEF TokenOwned, Exists, Readable
<1> QED BY <1>4, <1>5, <1>6, <1>7, <1>8 DEF Owners

LEMMA CreateStep ==
  ASSUME TypeOK, Owners, NEW h \in Requests, NEW name \in Names, NEW mode \in {"manual", "auto"},
         CreateWithoutToken(h, name, mode)
  PROVE  Owners'
<1>1. /\ InsertFeed(name, None, mode) /\ last' = [last EXCEPT !.feed = @ + 1]
      /\ UNCHANGED <<tokens, left>> /\ req' = req
  BY DEF CreateWithoutToken, history
<1>2. None <= last.token
  BY LastTypes DEF None
<1>3. \A g \in Requests : req'[g] = req[g]
  BY <1>1
<1>4. None \in TokenIds \cup {None}
  OBVIOUS
<1> QED BY <1>1, <1>2, <1>3, <1>4, Created

LEMMA CreateTokenStep ==
  ASSUME TypeOK, Owners, NEW h \in Requests, CreateWithToken(h)
  PROVE  Owners' /\ req' \in [Requests -> Request] /\ \E name \in Names, t \in TokenIds, mode \in {"manual", "auto"} : InsertFeed(name, t, mode)
<1> DEFINE t == req[h].row.token
           mode == req[h].row.moderation
<1>1. req[h].pc = "insert" /\ InsertFeed(req[h].name, t, mode) /\ last' = [last EXCEPT !.feed = @ + 1]
      /\ UNCHANGED <<tokens, left>> /\ Become(h, Idle)
  BY DEF CreateWithToken, history, At
<1>2. req' \in [Requests -> Request] /\ req'[h] = Idle /\ \A g \in Requests \ {h} : req'[g] = req[g]
  BY <1>1, Nulls, OneRequest
<1>3. /\ req[h].name \in Names /\ t \in TokenIds
      /\ Readable(t) /\ \A f \in FeedIds : ~Owns(f, t)
      /\ \A g \in Requests \ {h} : req[g].pc \in {"seal", "insert", "delete", "unseal"} => req[g].row.token # t
  BY <1>1 DEF Owners, CreationAlone, Creating
<1>4. mode \in {"manual", "auto"} /\ t <= last.token
  BY DEF TypeOK, Request, Owners, Numbered
<1>5. \A g \in Requests : req'[g].pc \in {"seal", "insert", "delete", "unseal"} => req'[g].row.token # t
  BY <1>2, <1>3, IdleFields
<1>6. \A g \in Requests : req'[g] = req[g] \/ (req[g].pc = "insert" /\ req[g].row.token = t /\ req'[g] = Idle)
  BY <1>1, <1>2
<1> HIDE DEF t, mode
<1>7. Owners'
  BY <1>1, <1>3, <1>4, <1>5, <1>6, Created
<1> QED BY <1>1, <1>2, <1>3, <1>4, <1>7

LEMMA StoreStep ==
  ASSUME TypeOK, Owners, NEW h \in Requests, NEW name \in Names, NEW mode \in {"manual", "auto"},
         StoreToken(h, name, mode)
  PROVE  /\ Owners' /\ req' \in [Requests -> Request] /\ tokens' \in [TokenIds -> Token \cup {NoToken}]
         /\ last' \in [feed: 0..MaxFeeds, token: 0..MaxTokens]
         /\ UNCHANGED <<feeds, cache, history, bounds>> /\ req[h].pc = "idle"
         /\ \A g \in Requests \ {h} : req'[g] = req[g]
<1> DEFINE n == last.token + 1
           r == [Idle EXCEPT !.pc = "seal", !.name = name, !.row = [NoRow EXCEPT !.token = n, !.moderation = mode]]
           q == [name |-> name, sealed |-> FALSE]
<1>1. last.feed \in Nat /\ last.token \in Nat /\ last.token < MaxTokens
  BY LastTypes DEF StoreToken
<1>2. last' = [last EXCEPT !.token = n] /\ last \in [feed: 0..MaxFeeds, token: 0..MaxTokens]
  BY DEF StoreToken, TypeOK
<1>3. last'.token = n /\ last'.feed = last.feed /\ last' \in [feed: 0..MaxFeeds, token: 0..MaxTokens]
  BY <1>1, <1>2, SocialAssumption
<1>4. n \in TokenIds /\ n # None
  BY <1>1, SocialAssumption DEF TokenIds, None
<1>5. r \in Request /\ r.feed = 0 /\ r.row.token = n /\ r.pc = "seal" /\ r.name = name
  <2>1. [NoRow EXCEPT !.token = n, !.moderation = mode] \in Rows /\ [NoRow EXCEPT !.token = n, !.moderation = mode].token = n
    BY <1>4, Nulls DEF Rows
  <2> QED BY <2>1 DEF Idle, Request, Rows, None
<1>6. tokens' = [tokens EXCEPT ![n] = q] /\ Become(h, r) /\ req[h].pc = "idle" /\ UNCHANGED <<feeds, cache, history, bounds>>
  BY <1>3 DEF StoreToken, At
<1>7. q \in Token /\ q # NoToken
  <2>1. q \in Token
    BY DEF Token
  <2> QED BY <2>1, Nulls
<1> HIDE DEF q, r
<1>8. tokens' \in [TokenIds -> Token \cup {NoToken}] /\ tokens'[n] = q /\ \A t \in TokenIds \ {n} : tokens'[t] = tokens[t]
  BY <1>4, <1>6, <1>7 DEF TypeOK
<1>9. req' \in [Requests -> Request] /\ req'[h] = r /\ \A g \in Requests \ {h} : req'[g] = req[g]
  BY <1>5, <1>6, OneRequest
<1>10. /\ \A f \in FeedIds : Exists(f) => feeds[f].token # n
       /\ \A g \in Requests : req[g].row.token # n /\ req[g].row.token \in TokenIds \cup {None}
       /\ tokens[n] = NoToken
  BY <1>1, <1>4 DEF Owners, Numbered, TypeOK, Request, TokenIds, None
<1>11. \A t \in TokenIds : Readable(t) => tokens'[t] # NoToken /\ tokens'[t].sealed
  BY <1>8, <1>10 DEF Readable
<1> HIDE DEF n
<1>12. Numbered'
  <2>1. \A f \in FeedIds : feeds[f] # NoFeed => f <= last.feed /\ feeds[f].token <= n
    <3>1. \A f \in FeedIds : feeds[f] # NoFeed => feeds[f].token \in Int /\ f <= last.feed /\ feeds[f].token <= last.token
      BY FeedFields DEF Owners, Numbered, Exists, TokenIds, None
    <3> QED BY <1>1, <3>1 DEF n
  <2>2. \A t \in TokenIds : tokens'[t] # NoToken => t <= n
    BY <1>1, <1>8 DEF Owners, Numbered, TokenIds, n
  <2>3. \A g \in Requests : req'[g].feed <= last.feed /\ req'[g].row.token <= n
    <3>1. \A g \in Requests : req[g].feed <= last.feed /\ req[g].row.token <= last.token
      BY DEF Owners, Numbered
    <3>2. \A g \in Requests \ {h} : req[g].row.token <= n
      BY <1>1, <1>10, <3>1 DEF n, TokenIds, None
    <3> QED BY <1>1, <1>4, <1>5, <1>9, <3>1, <3>2 DEF TokenIds
  <2> QED BY <1>3, <1>6, <2>1, <2>2, <2>3 DEF Numbered, Exists
<1>13. ModerationKnown'
  BY <1>5, <1>6, <1>9 DEF Owners, ModerationKnown, Refreshing, Exists
<1>14. CreationAlone'
  <2> SUFFICES ASSUME NEW k \in Requests, req'[k].pc \in {"seal", "insert"}
               PROVE  /\ req'[k].name \in Names
                      /\ req'[k].row.token \in TokenIds
                      /\ tokens'[req'[k].row.token] # NoToken
                      /\ req'[k].pc = "insert" => tokens'[req'[k].row.token] # NoToken /\ tokens'[req'[k].row.token].sealed
                      /\ \A f \in FeedIds : ~(feeds[f] # NoFeed /\ feeds[f].token = req'[k].row.token)
                      /\ \A g \in Requests \ {k} : req'[g].pc \in {"seal", "insert", "delete", "unseal"} =>
                           req'[g].row.token # req'[k].row.token
    BY <1>6 DEF CreationAlone, Creating, Owns, Exists, Readable
  <2>1. CASE k = h
    BY <1>4, <1>5, <1>7, <1>8, <1>9, <1>10, <2>1 DEF Exists
  <2>2. CASE k # h
    <3>1. req'[k] = req[k] /\ Creating(k)
      BY <1>9, <2>2 DEF Creating
    <3>2. /\ req[k].name \in Names /\ req[k].row.token \in TokenIds /\ tokens[req[k].row.token] # NoToken
          /\ req[k].pc = "insert" => Readable(req[k].row.token)
          /\ \A f \in FeedIds : ~(feeds[f] # NoFeed /\ feeds[f].token = req[k].row.token)
          /\ \A g \in Requests \ {k} : req[g].pc \in {"seal", "insert", "delete", "unseal"} =>
               req[g].row.token # req[k].row.token
      BY <3>1 DEF Owners, CreationAlone, Creating, Owns, Exists
    <3> QED BY <1>5, <1>8, <1>9, <1>10, <1>11, <3>1, <3>2
  <2> QED BY <2>1, <2>2
<1>15. DeletionSound'
  BY <1>5, <1>6, <1>9 DEF Owners, DeletionSound, Owns, Exists
<1>16. TokenOwned'
  <2>1. \A f \in FeedIds : feeds[f] # NoFeed /\ feeds[f].token # None => tokens'[feeds[f].token] # NoToken /\ tokens'[feeds[f].token].sealed
    BY <1>11, FeedFields DEF Owners, TokenOwned, Exists
  <2>2. \A t \in TokenIds : tokens'[t] # NoToken =>
           \/ \E f \in FeedIds : feeds[f] # NoFeed /\ feeds[f].token = t
           \/ \E g \in Requests : req'[g].pc \in {"seal", "insert", "unseal"} /\ req'[g].row.token = t
           \/ t \in left
    <3> SUFFICES ASSUME NEW t \in TokenIds, tokens'[t] # NoToken
                 PROVE  \/ \E f \in FeedIds : feeds[f] # NoFeed /\ feeds[f].token = t
                        \/ \E g \in Requests : req'[g].pc \in {"seal", "insert", "unseal"} /\ req'[g].row.token = t
                        \/ t \in left
      OBVIOUS
    <3>1. CASE t = n
      BY <1>5, <1>9, <3>1
    <3>2. CASE t # n
      BY <1>6, <1>8, <1>9, <3>2 DEF Owners, TokenOwned, Exists
    <3> QED BY <3>1, <3>2
  <2>3. UNCHANGED <<feeds, left>>
    BY <1>6 DEF history
  <2> QED BY <2>1, <2>2, <2>3 DEF Owners, TokenOwned, Exists, Readable
<1> QED BY <1>3, <1>6, <1>8, <1>9, <1>12, <1>13, <1>14, <1>15, <1>16 DEF Owners

LEMMA SealStep ==
  ASSUME TypeOK, Owners, NEW h \in Requests, SealToken(h)
  PROVE  /\ Owners' /\ req' \in [Requests -> Request] /\ tokens' \in [TokenIds -> Token \cup {NoToken}]
         /\ UNCHANGED <<feeds, cache, last, history, bounds>> /\ req[h].pc = "seal"
         /\ \A g \in Requests \ {h} : req'[g] = req[g]
<1> DEFINE t == req[h].row.token
           r == [req[h] EXCEPT !.pc = "insert"]
           q == [tokens[t] EXCEPT !.sealed = TRUE]
<1>1. /\ req[h].pc = "seal" /\ Become(h, r) /\ UNCHANGED <<feeds, cache, last, history, bounds>>
      /\ tokens' = [tokens EXCEPT ![t].sealed = TRUE]
  BY DEF SealToken, At, Goto
<1>2. r \in Request /\ r.feed = req[h].feed /\ r.row = req[h].row /\ r.pc = "insert" /\ r.name = req[h].name
  <2>1. req[h] \in Request
    BY DEF TypeOK
  <2> QED BY <2>1 DEF Request
<1>3. /\ req[h].name \in Names /\ t \in TokenIds /\ tokens[t] # NoToken
      /\ \A f \in FeedIds : ~Owns(f, t)
      /\ \A g \in Requests \ {h} : req[g].pc \in {"seal", "insert", "delete", "unseal"} => req[g].row.token # t
  BY <1>1 DEF Owners, CreationAlone, Creating
<1>4. q \in Token /\ q.sealed
  <2>1. tokens[t] \in Token
    BY <1>3 DEF TypeOK
  <2> QED BY <2>1 DEF Token
<1>5. q # NoToken
  BY <1>4, Nulls
<1> HIDE DEF q, r
<1>6. tokens' \in [TokenIds -> Token \cup {NoToken}] /\ tokens'[t] = q /\ \A u \in TokenIds \ {t} : tokens'[u] = tokens[u]
  <2>1. tokens' = [tokens EXCEPT ![t] = q]
    BY <1>1 DEF q
  <2> QED BY <1>3, <1>4, <2>1 DEF TypeOK
<1>7. req' \in [Requests -> Request] /\ req'[h] = r /\ \A g \in Requests \ {h} : req'[g] = req[g]
  BY <1>1, <1>2, OneRequest
<1>8. \A u \in TokenIds : Readable(u) => tokens'[u] # NoToken /\ tokens'[u].sealed
  BY <1>4, <1>5, <1>6 DEF Readable
<1>9. \A u \in TokenIds : tokens'[u] # NoToken <=> tokens[u] # NoToken
  BY <1>3, <1>5, <1>6
<1>10. Numbered'
  BY <1>1, <1>2, <1>7, <1>9 DEF Owners, Numbered, Exists
<1>11. ModerationKnown'
  BY <1>1, <1>2, <1>7 DEF Owners, ModerationKnown, Refreshing, Exists
<1>12. CreationAlone'
  <2> SUFFICES ASSUME NEW k \in Requests, req'[k].pc \in {"seal", "insert"}
               PROVE  /\ req'[k].name \in Names
                      /\ req'[k].row.token \in TokenIds
                      /\ tokens'[req'[k].row.token] # NoToken
                      /\ req'[k].pc = "insert" => tokens'[req'[k].row.token] # NoToken /\ tokens'[req'[k].row.token].sealed
                      /\ \A f \in FeedIds : ~(feeds[f] # NoFeed /\ feeds[f].token = req'[k].row.token)
                      /\ \A g \in Requests \ {k} : req'[g].pc \in {"seal", "insert", "delete", "unseal"} =>
                           req'[g].row.token # req'[k].row.token
    BY <1>1 DEF CreationAlone, Creating, Owns, Exists, Readable
  <2>1. CASE k = h
    BY <1>2, <1>3, <1>4, <1>5, <1>6, <1>7, <2>1 DEF Exists, Owns
  <2>2. CASE k # h
    <3>1. req'[k] = req[k] /\ Creating(k)
      BY <1>7, <2>2 DEF Creating
    <3>2. /\ req[k].name \in Names /\ req[k].row.token \in TokenIds /\ tokens[req[k].row.token] # NoToken
          /\ req[k].pc = "insert" => Readable(req[k].row.token)
          /\ \A f \in FeedIds : ~(feeds[f] # NoFeed /\ feeds[f].token = req[k].row.token)
          /\ \A g \in Requests \ {k} : req[g].pc \in {"seal", "insert", "delete", "unseal"} =>
               req[g].row.token # req[k].row.token
      BY <3>1 DEF Owners, CreationAlone, Creating, Owns, Exists
    <3> QED BY <1>1, <1>2, <1>7, <1>8, <1>9, <3>1, <3>2
  <2> QED BY <2>1, <2>2
<1>13. DeletionSound'
  BY <1>1, <1>2, <1>7 DEF Owners, DeletionSound, Owns, Exists
<1>14. TokenOwned'
  <2>1. \A f \in FeedIds : feeds[f] # NoFeed /\ feeds[f].token # None => tokens'[feeds[f].token] # NoToken /\ tokens'[feeds[f].token].sealed
    BY <1>8, FeedFields DEF Owners, TokenOwned, Exists
  <2>2. \A u \in TokenIds : tokens'[u] # NoToken =>
           \/ \E f \in FeedIds : feeds[f] # NoFeed /\ feeds[f].token = u
           \/ \E g \in Requests : req'[g].pc \in {"seal", "insert", "unseal"} /\ req'[g].row.token = u
           \/ u \in left
    BY <1>1, <1>2, <1>7, <1>9 DEF Owners, TokenOwned, Exists
  <2>3. UNCHANGED <<feeds, left>>
    BY <1>1 DEF history
  <2> QED BY <2>1, <2>2, <2>3 DEF Owners, TokenOwned, Exists, Readable
<1> QED BY <1>1, <1>6, <1>7, <1>10, <1>11, <1>12, <1>13, <1>14 DEF Owners

LEMMA ReadStep ==
  ASSUME TypeOK, Owners, NEW h \in Requests, NEW f \in FeedIds, ReadForDelete(h, f)
  PROVE  /\ Owners' /\ req' \in [Requests -> Request]
         /\ UNCHANGED <<feeds, tokens, cache, last, history, bounds>> /\ req[h].pc = "idle"
         /\ \A g \in Requests \ {h} : req'[g] = req[g]
<1> DEFINE r == [Idle EXCEPT !.pc = "delete", !.feed = f, !.row = Row(f)]
<1>1. /\ req[h].pc = "idle" /\ Exists(f) /\ Become(h, r)
      /\ UNCHANGED <<feeds, tokens, cache, last, history, bounds>>
  BY DEF ReadForDelete, At
<1>2. Row(f) \in Rows /\ Row(f).token = feeds[f].token /\ feeds[f].token \in TokenIds \cup {None}
  BY <1>1, FeedFields
<1>3. r \in Request /\ r.feed = f /\ r.row.token = feeds[f].token /\ r.pc = "delete"
  BY <1>2, Nulls DEF Request, Rows, Idle
<1> HIDE DEF r
<1>4. req' \in [Requests -> Request] /\ req'[h] = r /\ \A g \in Requests \ {h} : req'[g] = req[g]
  BY <1>1, <1>3, OneRequest
<1>5. UNCHANGED <<feeds, tokens, last, left>>
  BY <1>1 DEF history
<1>6. Numbered'
  BY <1>1, <1>3, <1>4, <1>5 DEF Owners, Numbered, Exists
<1>7. ModerationKnown'
  BY <1>3, <1>4, <1>5 DEF Owners, ModerationKnown, Refreshing, Exists
<1>8. CreationAlone'
  <2> SUFFICES ASSUME NEW k \in Requests, req'[k].pc \in {"seal", "insert"}
               PROVE  /\ req'[k].name \in Names
                      /\ req'[k].row.token \in TokenIds
                      /\ tokens[req'[k].row.token] # NoToken
                      /\ req'[k].pc = "insert" => Readable(req'[k].row.token)
                      /\ \A g \in FeedIds : ~(feeds[g] # NoFeed /\ feeds[g].token = req'[k].row.token)
                      /\ \A g \in Requests \ {k} : req'[g].pc \in {"seal", "insert", "delete", "unseal"} =>
                           req'[g].row.token # req'[k].row.token
    BY <1>5 DEF CreationAlone, Creating, Owns, Exists, Readable
  <2>1. req'[k] = req[k] /\ Creating(k)
    BY <1>3, <1>4 DEF Creating
  <2>2. /\ req[k].name \in Names /\ req[k].row.token \in TokenIds /\ tokens[req[k].row.token] # NoToken
        /\ req[k].pc = "insert" => Readable(req[k].row.token)
        /\ \A g \in FeedIds : ~(feeds[g] # NoFeed /\ feeds[g].token = req[k].row.token)
        /\ \A g \in Requests \ {k} : req[g].pc \in {"seal", "insert", "delete", "unseal"} =>
             req[g].row.token # req[k].row.token
    BY <2>1 DEF Owners, CreationAlone, Creating, Owns, Exists
  <2> QED BY <1>1, <1>3, <1>4, <2>1, <2>2 DEF Exists
<1>9. DeletionSound'
  <2>1. \A g \in FeedIds \ {f} : feeds[f].token # None => ~Owns(g, feeds[f].token)
    BY <1>1 DEF Owners, TokenOwned, Owns
  <2> QED BY <1>3, <1>4, <1>5, <2>1 DEF Owners, DeletionSound, Owns, Exists
<1>10. TokenOwned'
  BY <1>1, <1>4, <1>5 DEF Owners, TokenOwned, Exists, Readable
<1> QED BY <1>1, <1>4, <1>6, <1>7, <1>8, <1>9, <1>10 DEF Owners

\* The feed goes, and its token's only holder is the deletion.
LEMMA DeleteStep ==
  ASSUME TypeOK, Owners, NEW h \in Requests, DeleteFeed(h)
  PROVE  /\ Owners' /\ req' \in [Requests -> Request] /\ feeds' \in [FeedIds -> Feed \cup {NoFeed}]
         /\ req[h].pc = "delete" /\ req[h].feed \in FeedIds
         /\ feeds' = [feeds EXCEPT ![req[h].feed] = NoFeed]
         /\ \A g \in Requests \ {h} : req'[g] = req[g]
<1> DEFINE d == req[h].feed
           t == req[h].row.token
<1>1. /\ req[h].pc = "delete" /\ feeds' = [feeds EXCEPT ![d] = NoFeed] /\ UNCHANGED <<tokens, last, left>>
      /\ IF t = None THEN Become(h, Idle) ELSE Goto(h, "unseal")
  BY DEF DeleteFeed, At, bounds
<1>2. /\ d \in FeedIds
      /\ Exists(d) => feeds[d].token = t
      /\ t # None => \A f \in FeedIds \ {d} : ~Owns(f, t)
  BY <1>1 DEF Owners, DeletionSound
<1>3. /\ feeds' \in [FeedIds -> Feed \cup {NoFeed}] /\ feeds'[d] = NoFeed
      /\ \A f \in FeedIds \ {d} : feeds'[f] = feeds[f]
  BY <1>1, <1>2 DEF TypeOK
<1>4. t \in TokenIds \cup {None} /\ req[h] \in Request
  BY DEF TypeOK, Request
<1>5. PICK r \in Request : /\ Become(h, r) /\ r.feed <= last.feed /\ r.row.token <= last.token
                           /\ t = None => r.pc = "idle"
                           /\ t # None => r.pc = "unseal" /\ r.row.token = t /\ t \in TokenIds
  <2>1. CASE t = None
    BY <1>1, <2>1, Nulls, IdleFields, LastTypes
  <2>2. CASE t # None
    <3> DEFINE r == [req[h] EXCEPT !.pc = "unseal"]
    <3>1. r \in Request /\ r.feed = req[h].feed /\ r.row = req[h].row /\ r.pc = "unseal"
      BY <1>4 DEF Request
    <3>2. Become(h, r)
      BY <1>1, <2>2 DEF Goto
    <3>3. req[h].feed <= last.feed /\ t <= last.token
      BY DEF Owners, Numbered
    <3> QED BY <1>4, <2>2, <3>1, <3>2, <3>3
  <2> QED BY <2>1, <2>2
<1>6. req' \in [Requests -> Request] /\ req'[h] = r /\ \A g \in Requests \ {h} : req'[g] = req[g]
  BY <1>5, OneRequest
<1>7. \A f \in FeedIds : feeds'[f] # NoFeed => f # d /\ feeds[f] # NoFeed /\ feeds'[f] = feeds[f]
  BY <1>3
<1> HIDE DEF d, t
<1>8. Numbered'
  <2>1. \A f \in FeedIds : feeds'[f] # NoFeed => f <= last.feed /\ feeds'[f].token <= last.token
    BY <1>7 DEF Owners, Numbered, Exists
  <2>2. \A g \in Requests : req'[g].feed <= last.feed /\ req'[g].row.token <= last.token
    BY <1>5, <1>6 DEF Owners, Numbered
  <2> QED BY <1>1, <2>1, <2>2 DEF Owners, Numbered, Exists
<1>9. ModerationKnown'
  <2> SUFFICES ASSUME NEW g \in Requests, Refreshing(g)'
               PROVE  /\ req'[g].feed \in FeedIds
                      /\ feeds'[req'[g].feed] # NoFeed => req'[g].row.moderation = feeds'[req'[g].feed].moderation
    BY DEF ModerationKnown, Exists
  <2>1. req'[g] = req[g] /\ Refreshing(g)
    BY <1>5, <1>6 DEF Refreshing
  <2> QED BY <1>7, <2>1 DEF Owners, ModerationKnown, Exists
<1>10. CreationAlone'
  <2> SUFFICES ASSUME NEW k \in Requests, req'[k].pc \in {"seal", "insert"}
               PROVE  /\ req'[k].name \in Names
                      /\ req'[k].row.token \in TokenIds
                      /\ tokens[req'[k].row.token] # NoToken
                      /\ req'[k].pc = "insert" => Readable(req'[k].row.token)
                      /\ \A f \in FeedIds : ~(feeds'[f] # NoFeed /\ feeds'[f].token = req'[k].row.token)
                      /\ \A g \in Requests \ {k} : req'[g].pc \in {"seal", "insert", "delete", "unseal"} =>
                           req'[g].row.token # req'[k].row.token
    BY <1>1 DEF CreationAlone, Creating, Owns, Exists, Readable
  <2>1. req'[k] = req[k] /\ Creating(k)
    BY <1>5, <1>6 DEF Creating
  <2>2. /\ req[k].name \in Names /\ req[k].row.token \in TokenIds /\ tokens[req[k].row.token] # NoToken
        /\ req[k].pc = "insert" => Readable(req[k].row.token)
        /\ \A f \in FeedIds : ~(feeds[f] # NoFeed /\ feeds[f].token = req[k].row.token)
        /\ \A g \in Requests \ {k} : req[g].pc \in {"seal", "insert", "delete", "unseal"} =>
             req[g].row.token # req[k].row.token
    BY <2>1 DEF Owners, CreationAlone, Creating, Owns, Exists
  <2> QED BY <1>1, <1>5, <1>6, <1>7, <2>1, <2>2 DEF t
<1>11. DeletionSound'
  <2> SUFFICES ASSUME NEW k \in Requests
               PROVE  /\ req'[k].pc = "delete" =>
                           /\ req'[k].feed \in FeedIds
                           /\ feeds'[req'[k].feed] # NoFeed => feeds'[req'[k].feed].token = req'[k].row.token
                           /\ req'[k].row.token # None => \A f \in FeedIds \ {req'[k].feed} : ~(feeds'[f] # NoFeed /\ feeds'[f].token = req'[k].row.token)
                      /\ req'[k].pc = "unseal" =>
                           /\ req'[k].row.token \in TokenIds
                           /\ \A f \in FeedIds : ~(feeds'[f] # NoFeed /\ feeds'[f].token = req'[k].row.token)
    BY DEF DeletionSound, Owns, Exists
  <2>1. CASE k = h
    BY <1>2, <1>5, <1>6, <1>7, <2>1 DEF Owns, Exists
  <2>2. CASE k # h
    BY <1>6, <1>7, <2>2 DEF Owners, DeletionSound, Owns, Exists
  <2> QED BY <2>1, <2>2
<1>12. TokenOwned'
  <2>1. \A f \in FeedIds : feeds'[f] # NoFeed /\ feeds'[f].token # None => Readable(feeds'[f].token)
    BY <1>7 DEF Owners, TokenOwned, Exists
  <2>2. \A f, g \in FeedIds : feeds'[f] # NoFeed /\ feeds'[g] # NoFeed /\ feeds'[f].token = feeds'[g].token
                              => f = g \/ feeds'[f].token = None
    BY <1>7 DEF Owners, TokenOwned, Exists
  <2>3. ASSUME NEW u \in TokenIds, tokens[u] # NoToken
        PROVE  \/ \E f \in FeedIds : feeds'[f] # NoFeed /\ feeds'[f].token = u
               \/ \E g \in Requests : req'[g].pc \in {"seal", "insert", "unseal"} /\ req'[g].row.token = u
               \/ u \in left
    <3>1. CASE \E f \in FeedIds : Exists(f) /\ feeds[f].token = u
      <4>1. PICK f \in FeedIds : Exists(f) /\ feeds[f].token = u
        BY <3>1
      <4>2. CASE f = d
        BY <1>2, <1>5, <1>6, <4>1, <4>2 DEF TokenIds, None
      <4>3. CASE f # d
        BY <1>3, <4>1, <4>3 DEF Exists
      <4> QED BY <4>2, <4>3
    <3>2. CASE ~\E f \in FeedIds : Exists(f) /\ feeds[f].token = u
      BY <1>1, <1>6, <2>3, <3>2 DEF Owners, TokenOwned
    <3> QED BY <3>1, <3>2
  <2> QED BY <1>1, <2>1, <2>2, <2>3 DEF TokenOwned, Exists, Readable
<1> QED BY <1>1, <1>2, <1>3, <1>6, <1>8, <1>9, <1>10, <1>11, <1>12 DEF Owners, d

\* The token of a feed that is gone.
LEMMA DropStep ==
  ASSUME TypeOK, Owners, NEW h \in Requests, DeleteToken(h)
  PROVE  /\ Owners' /\ req' \in [Requests -> Request] /\ tokens' \in [TokenIds -> Token \cup {NoToken}]
         /\ UNCHANGED <<feeds, cache, last, decided, untrimmed, bounds>> /\ left' \subseteq left
         /\ req[h].pc = "unseal" /\ \A g \in Requests \ {h} : req'[g] = req[g]
<1> DEFINE t == req[h].row.token
<1>1. /\ req[h].pc = "unseal" /\ tokens' = DropToken(t) /\ left' = left \ {t} /\ Become(h, Idle)
      /\ UNCHANGED <<feeds, cache, last, decided, untrimmed, bounds>>
  BY DEF DeleteToken, At
<1>2. t \in TokenIds /\ \A f \in FeedIds : ~Owns(f, t)
  BY <1>1 DEF Owners, DeletionSound
<1>3. /\ tokens' \in [TokenIds -> Token \cup {NoToken}] /\ tokens'[t] = NoToken
      /\ \A u \in TokenIds \ {t} : tokens'[u] = tokens[u]
  BY <1>1, <1>2 DEF TypeOK, DropToken
<1>4. req' \in [Requests -> Request] /\ req'[h] = Idle /\ \A g \in Requests \ {h} : req'[g] = req[g]
  BY <1>1, Nulls, OneRequest
<1>5. \A g \in Requests : Creating(g) => req[g].row.token # t
  <2>1. h \notin {g \in Requests : Creating(g)}
    BY <1>1 DEF Creating
  <2> QED BY <1>1, <2>1 DEF Owners, CreationAlone
<1> HIDE DEF t
<1>6. Numbered'
  BY <1>1, <1>3, <1>4, IdleFields, LastTypes DEF Owners, Numbered, Exists
<1>7. ModerationKnown'
  BY <1>1, <1>4, IdleFields DEF Owners, ModerationKnown, Refreshing, Exists
<1>8. CreationAlone'
  <2> SUFFICES ASSUME NEW k \in Requests, req'[k].pc \in {"seal", "insert"}
               PROVE  /\ req'[k].name \in Names
                      /\ req'[k].row.token \in TokenIds
                      /\ tokens'[req'[k].row.token] # NoToken
                      /\ req'[k].pc = "insert" => tokens'[req'[k].row.token] # NoToken /\ tokens'[req'[k].row.token].sealed
                      /\ \A f \in FeedIds : ~(feeds[f] # NoFeed /\ feeds[f].token = req'[k].row.token)
                      /\ \A g \in Requests \ {k} : req'[g].pc \in {"seal", "insert", "delete", "unseal"} =>
                           req'[g].row.token # req'[k].row.token
    BY <1>1 DEF CreationAlone, Creating, Owns, Exists, Readable
  <2>1. req'[k] = req[k] /\ Creating(k) /\ req[k].row.token # t
    BY <1>4, <1>5, IdleFields DEF Creating
  <2>2. /\ req[k].name \in Names /\ req[k].row.token \in TokenIds /\ tokens[req[k].row.token] # NoToken
        /\ req[k].pc = "insert" => tokens[req[k].row.token].sealed
        /\ \A f \in FeedIds : ~(feeds[f] # NoFeed /\ feeds[f].token = req[k].row.token)
        /\ \A g \in Requests \ {k} : req[g].pc \in {"seal", "insert", "delete", "unseal"} =>
             req[g].row.token # req[k].row.token
    BY <2>1 DEF Owners, CreationAlone, Creating, Owns, Exists, Readable
  <2> QED BY <1>3, <1>4, IdleFields, <2>1, <2>2
<1>9. DeletionSound'
  BY <1>1, <1>4, IdleFields DEF Owners, DeletionSound, Owns, Exists
<1>10. TokenOwned'
  <2>1. \A f \in FeedIds : feeds[f] # NoFeed /\ feeds[f].token # None => tokens'[feeds[f].token] # NoToken /\ tokens'[feeds[f].token].sealed
    BY <1>2, <1>3, FeedFields DEF Owners, TokenOwned, Exists, Owns, Readable
  <2>2. \A u \in TokenIds : tokens'[u] # NoToken =>
           \/ \E f \in FeedIds : feeds[f] # NoFeed /\ feeds[f].token = u
           \/ \E g \in Requests : req'[g].pc \in {"seal", "insert", "unseal"} /\ req'[g].row.token = u
           \/ u \in left'
    <3> SUFFICES ASSUME NEW u \in TokenIds, tokens'[u] # NoToken
                 PROVE  \/ \E f \in FeedIds : feeds[f] # NoFeed /\ feeds[f].token = u
                        \/ \E g \in Requests : req'[g].pc \in {"seal", "insert", "unseal"} /\ req'[g].row.token = u
                        \/ u \in left'
      OBVIOUS
    <3>1. u # t /\ tokens[u] # NoToken
      BY <1>3
    <3> QED BY <1>1, <1>4, <3>1 DEF Owners, TokenOwned, Exists, t
  <2> QED BY <1>1, <2>1, <2>2 DEF Owners, TokenOwned, Exists, Readable
<1> QED BY <1>1, <1>3, <1>4, <1>6, <1>7, <1>8, <1>9, <1>10 DEF Owners

\* A request that is cut short leaves its token behind.
LEMMA GiveUpStep ==
  ASSUME TypeOK, Owners, NEW h \in Requests, GiveUp(h)
  PROVE  /\ Owners' /\ req' \in [Requests -> Request] /\ left' \in SUBSET TokenIds
         /\ UNCHANGED <<feeds, tokens, cache, last, decided, kinds>>
         /\ req'[h] = Idle /\ \A g \in Requests \ {h} : req'[g] = req[g]
<1> DEFINE t == req[h].row.token
<1>1. /\ Become(h, Idle) /\ UNCHANGED <<feeds, tokens, cache, last, decided, kinds>>
      /\ left' = IF req[h].pc \in {"seal", "insert", "unseal"} THEN left \cup {t} ELSE left
  BY DEF GiveUp
<1>2. req' \in [Requests -> Request] /\ req'[h] = Idle /\ \A g \in Requests \ {h} : req'[g] = req[g]
  BY <1>1, Nulls, OneRequest
<1>3. req[h].pc \in {"seal", "insert", "unseal"} => t \in TokenIds
  BY DEF Owners, CreationAlone, DeletionSound, Creating
<1>4. left' \in SUBSET TokenIds
  BY <1>1, <1>3 DEF TypeOK
<1>5. \A u \in TokenIds :
        (\E g \in Requests : req[g].pc \in {"seal", "insert", "unseal"} /\ req[g].row.token = u) \/ u \in left
        => (\E g \in Requests : req'[g].pc \in {"seal", "insert", "unseal"} /\ req'[g].row.token = u) \/ u \in left'
  BY <1>1, <1>2
<1>6. \A g \in Requests :
        \/ req'[g] = req[g]
        \/ /\ req'[g].pc \notin {"seal", "insert", "delete", "unseal"}
           /\ req'[g].feed <= last.feed /\ req'[g].row.token <= last.token
           /\ req'[g].pc # "idle" =>
                /\ req'[g].feed \in FeedIds
                /\ Exists(req'[g].feed) => req'[g].row.moderation = feeds[req'[g].feed].moderation
  BY <1>2, IdleFields, LastTypes
<1>7. SameFeeds
  BY <1>1, SameRows
<1> QED BY <1>1, <1>2, <1>4, <1>5, <1>6, <1>7, SameOwners

-----------------------------------------------------------------------------
(* Cached posts                                                            *)

Loose(f) == Cached(f) \ Pinned(f)
Orphanless == \A f \in FeedIds : ~Exists(f) => Cached(f) = {}
Watched(f) == \E h \in Requests : req[h].pc \in {"store", "trim"} /\ req[h].feed = f
PostTypes ==
  /\ cache \in [FeedIds -> [Posts -> Post \cup {NoPost}]]
  /\ decided \in [FeedIds -> [Posts -> States \cup {"none"}]]
  /\ untrimmed \in SUBSET FeedIds
PostsInv == PostTypes /\ Orphanless /\ Forgotten /\ ShownWasAllowed /\ CacheCapped

LEMMA LooseFinite == \A f : IsFiniteSet(Cached(f)) /\ IsFiniteSet(Loose(f)) /\ Cardinality(Loose(f)) \in Nat
<1> TAKE f
<1>1. Cached(f) \subseteq Posts /\ Loose(f) \subseteq Posts
  BY DEF Cached, Loose
<1> QED BY <1>1, SocialAssumption, FS_Subset, FS_CardinalityType

LEMMA LooseFinite2 ==
  ASSUME NEW f \in FeedIds
  PROVE  IsFiniteSet(Loose(f)') /\ Cardinality(Loose(f)') \in Nat
<1>1. Loose(f)' \subseteq Posts
  BY DEF Cached, Loose
<1> QED BY <1>1, SocialAssumption, FS_Subset, FS_CardinalityType

\* How a feed stays capped, or has an excuse.
LEMMA CappedStep ==
  ASSUME CacheCapped,
         \A f \in FeedIds :
           \/ Cardinality(Loose(f)') <= CacheMax
           \/ f \in untrimmed' \/ Watched(f)'
           \/ /\ Loose(f)' \subseteq Loose(f)
              /\ f \notin untrimmed /\ ~Watched(f)
  PROVE  CacheCapped'
<1> SUFFICES ASSUME NEW f \in FeedIds, Cardinality(Loose(f)') > CacheMax
             PROVE  f \in untrimmed' \/ Watched(f)'
  BY DEF CacheCapped, Loose, Watched
<1>1. Cardinality(Loose(f)') \in Nat /\ Cardinality(Loose(f)) \in Nat /\ IsFiniteSet(Loose(f))
  BY LooseFinite, LooseFinite2
<1>2. ~(Cardinality(Loose(f)') <= CacheMax)
  BY <1>1, SocialAssumption
<1>3. CASE Loose(f)' \subseteq Loose(f) /\ f \notin untrimmed /\ ~Watched(f)
  <2>1. Cardinality(Loose(f)') <= Cardinality(Loose(f))
    BY <1>1, <1>3, FS_Subset
  <2>2. ~(Cardinality(Loose(f)) > CacheMax)
    BY <1>3 DEF CacheCapped, Loose, Watched
  <2> QED BY <1>1, <1>2, <2>1, <2>2, SocialAssumption
<1> QED BY <1>2, <1>3

\* Steps that leave the cache alone, and the feeds there are.
LEMMA PostsStill ==
  ASSUME PostsInv, UNCHANGED <<cache, decided>>, untrimmed' \in SUBSET FeedIds, untrimmed \subseteq untrimmed',
         \A f \in FeedIds : Exists(f) => feeds'[f] # NoFeed /\ feeds'[f].moderation = feeds[f].moderation,
         \A h \in Requests : req[h].pc \in {"store", "trim"} =>
           \/ req'[h].pc \in {"store", "trim"} /\ req'[h].feed = req[h].feed
           \/ req[h].feed \in untrimmed'
  PROVE  PostsInv'
<1>1. PostTypes'
  BY DEF PostsInv, PostTypes
<1>2. \A f \in FeedIds : Cached(f)' = Cached(f) /\ Pinned(f)' = Pinned(f) /\ Loose(f)' = Loose(f)
  BY DEF Cached, Pinned, Loose
<1>3. Orphanless'
  BY <1>2 DEF PostsInv, Orphanless, Exists
<1>4. Forgotten'
  BY DEF PostsInv, Forgotten
<1>5. ShownWasAllowed'
  BY <1>2 DEF PostsInv, ShownWasAllowed, ApprovedForDisplay, Exists
<1>6. \A f \in FeedIds : f \in untrimmed \/ Watched(f) => f \in untrimmed' \/ Watched(f)'
  BY DEF Watched
<1>7. CacheCapped'
  BY <1>2, <1>6, CappedStep DEF PostsInv
<1> QED BY <1>1, <1>3, <1>4, <1>5, <1>7 DEF PostsInv

\* A fetched post is stored; what was decided of it stays.
LEMMA UpsertPosts ==
  ASSUME TypeOK, Owners, PostsInv, NEW h \in Requests, UpsertPost(h)
  PROVE  PostsInv'
<1>1. PICK x \in req[h].todo :
        /\ cache' = IF Exists(req[h].feed) THEN [cache EXCEPT ![req[h].feed][x] = Moderated(@, req[h].row.moderation)]
                    ELSE cache
        /\ LET rest == req[h].todo \ {x} IN
           Become(h, [req[h] EXCEPT !.todo = rest, !.pc = IF rest = {} THEN "trim" ELSE "store"])
  BY DEF UpsertPost
<1>2. req[h] \in Request /\ x \in Posts
  BY DEF TypeOK, Request
<1>3. UNCHANGED <<feeds, decided, untrimmed>> /\ req[h].pc = "store" /\ Refreshing(h)
  BY DEF UpsertPost, history, At, Refreshing
<1>4. req'[h].pc \in {"store", "trim"} /\ req'[h].feed = req[h].feed /\ \A g \in Requests \ {h} : req'[g] = req[g]
  <2>1. PICK rest \in SUBSET Posts, pc \in {"store", "trim"} : Become(h, [req[h] EXCEPT !.todo = rest, !.pc = pc])
    <3>1. req[h].todo \ {x} \in SUBSET Posts
      BY <1>2 DEF Request
    <3> QED BY <1>1, <3>1
  <2>2. /\ [req[h] EXCEPT !.todo = rest, !.pc = pc] \in Request
        /\ [req[h] EXCEPT !.todo = rest, !.pc = pc].pc = pc
        /\ [req[h] EXCEPT !.todo = rest, !.pc = pc].feed = req[h].feed
    BY <1>2 DEF Request
  <2> QED BY <2>1, <2>2, OneRequest
<1>5. CASE ~Exists(req[h].feed)
  <2>1. UNCHANGED <<cache, decided>> /\ untrimmed' \in SUBSET FeedIds /\ untrimmed \subseteq untrimmed'
    BY <1>1, <1>3, <1>5 DEF PostsInv, PostTypes
  <2>2. \A f \in FeedIds : Exists(f) => feeds'[f] # NoFeed /\ feeds'[f].moderation = feeds[f].moderation
    BY <1>3 DEF Exists
  <2>3. \A g \in Requests : req[g].pc \in {"store", "trim"} =>
           \/ req'[g].pc \in {"store", "trim"} /\ req'[g].feed = req[g].feed
           \/ req[g].feed \in untrimmed'
    BY <1>4
  <2> QED BY <2>1, <2>2, <2>3, PostsStill
<1>6. CASE Exists(req[h].feed)
  <2>1. PICK f \in FeedIds : f = req[h].feed
    BY <1>3 DEF Owners, ModerationKnown
  <2>2. req[h].row.moderation = feeds[f].moderation /\ feeds[f].moderation \in {"manual", "auto"} /\ Exists(f)
    BY <1>3, <1>6, <2>1, FeedFields DEF Owners, ModerationKnown
  <2> DEFINE p == Moderated(cache[f][x], feeds[f].moderation)
  <2>3. cache' = [cache EXCEPT ![f][x] = p]
    BY <1>1, <1>6, <2>1, <2>2
  <2>4. cache[f][x] \in Post \cup {NoPost}
    BY <1>2 DEF PostsInv, PostTypes
  <2>5. /\ p \in Post
        /\ cache[f][x] # NoPost => p = cache[f][x]
        /\ cache[f][x] = NoPost /\ p.state = "approved" => feeds[f].moderation = "auto"
    BY <2>2, <2>4 DEF Moderated, Post, States
  <2>6. p # NoPost
    BY <2>5, Nulls
  <2> HIDE DEF p
  <2>7. /\ cache' \in [FeedIds -> [Posts -> Post \cup {NoPost}]]
        /\ cache'[f][x] = p
        /\ \A g \in FeedIds, y \in Posts : g # f \/ y # x => cache'[g][y] = cache[g][y]
    BY <1>2, <2>3, <2>5 DEF PostsInv, PostTypes
  <2>8. PostTypes'
    BY <1>3, <2>7 DEF PostsInv, PostTypes
  <2>9. Orphanless'
    BY <1>3, <2>2, <2>7 DEF PostsInv, Orphanless, Cached, Exists
  <2>10. Forgotten'
    BY <1>2, <1>3, <2>6, <2>7 DEF PostsInv, Forgotten
  <2>11. ShownWasAllowed'
    <3> SUFFICES ASSUME NEW g \in FeedIds, NEW y \in Posts, cache'[g][y] # NoPost, cache'[g][y].state = "approved"
                 PROVE  \/ decided[g][y] = "approved"
                        \/ Exists(g) /\ decided[g][y] = "none" /\ feeds[g].moderation = "auto"
      BY <1>3 DEF ShownWasAllowed, ApprovedForDisplay, Cached, Exists
    <3>1. CASE g = f /\ y = x /\ cache[g][y] = NoPost
      BY <2>2, <2>5, <2>7, <3>1 DEF PostsInv, Forgotten
    <3>2. CASE ~(g = f /\ y = x /\ cache[g][y] = NoPost)
      <4>1. cache'[g][y] = cache[g][y]
        BY <2>5, <2>7, <3>2
      <4>2. y \in ApprovedForDisplay(g)
        BY <4>1 DEF ApprovedForDisplay, Cached
      <4> QED BY <4>2 DEF PostsInv, ShownWasAllowed
    <3> QED BY <3>1, <3>2
  <2>12. CacheCapped'
    <3>1. Watched(f)'
      BY <1>4, <2>1 DEF Watched
    <3>2. \A g \in FeedIds \ {f} : Loose(g)' = Loose(g)
      BY <2>7 DEF Loose, Cached, Pinned
    <3>3. \A g \in FeedIds : g \in untrimmed \/ Watched(g) => g \in untrimmed' \/ Watched(g)'
      BY <1>3, <1>4 DEF Watched
    <3> QED BY <3>1, <3>2, <3>3, CappedStep DEF PostsInv
  <2> QED BY <2>8, <2>9, <2>10, <2>11, <2>12 DEF PostsInv
<1> QED BY <1>5, <1>6

\* No more than the cap are newest: of the others, the oldest of them counts fewer.
LEMMA NewestCapped == \A f : Cardinality(Newest(f)) <= CacheMax
<1> TAKE f
<1>1. IsFiniteSet(Newest(f)) /\ Newest(f) \subseteq Cached(f) /\ Newest(f) \subseteq Nat
  <2>1. Newest(f) \subseteq Cached(f) /\ Cached(f) \subseteq Posts
    BY DEF Newest, Cached
  <2> QED BY <2>1, SocialAssumption, FS_Subset
<1>2. CASE Newest(f) = {}
  BY <1>2, FS_EmptySet, SocialAssumption
<1>3. CASE Newest(f) # {}
  <2>1. PICK m \in Newest(f) : \A x \in Newest(f) : ~(x < m)
    <3> DEFINE R == OpToRel(<, Nat)
    <3>1. IsWellFoundedOn(R, Nat)
      BY NatLessThanWellFounded
    <3> HIDE DEF R
    <3>2. \E m \in Newest(f) : \A y \in Newest(f) : ~(<<y, m>> \in R)
      BY <1>1, <1>3, <3>1, WFMin
    <3>3. PICK m \in Newest(f) : \A y \in Newest(f) : ~(<<y, m>> \in R)
      BY <3>2
    <3>4. \A y \in Newest(f) : y < m => <<y, m>> \in R
      BY <1>1, <3>3 DEF R, OpToRel
    <3> QED BY <3>3, <3>4
  <2> DEFINE L == {y \in Cached(f) : y > m}
  <2>2. Cardinality(L) < CacheMax
    BY <2>1 DEF Newest
  <2>3. Newest(f) \ {m} \subseteq L
    BY <1>1, <2>1
  <2>4. IsFiniteSet(L)
    <3>1. L \subseteq Cached(f)
      OBVIOUS
    <3> QED BY <3>1, LooseFinite, FS_Subset
  <2> HIDE DEF L
  <2>5. Cardinality(Newest(f) \ {m}) <= Cardinality(L) /\ Cardinality(L) \in Nat
    BY <2>3, <2>4, FS_Subset, FS_CardinalityType
  <2>6. Cardinality(Newest(f) \ {m}) = Cardinality(Newest(f)) - 1 /\ Cardinality(Newest(f)) \in Nat
    BY <1>1, <2>1, FS_RemoveElement, FS_CardinalityType
  <2> QED BY <2>2, <2>5, <2>6, SocialAssumption
<1> QED BY <1>2, <1>3

\* What is kept stays as it is; no other feed changes.
LEMMA TrimPosts ==
  ASSUME TypeOK, Owners, PostsInv, NEW h \in Requests, TrimCache(h)
  PROVE  PostsInv'
<1>1. req[h].pc = "trim" /\ Refreshing(h)
  BY DEF TrimCache, At, Refreshing
<1>2. PICK f \in FeedIds : f = req[h].feed
  BY <1>1 DEF Owners, ModerationKnown
<1> DEFINE c == [x \in Posts |-> IF x \in Kept(f) THEN cache[f][x] ELSE NoPost]
           d == [x \in Posts |-> IF x \in Kept(f) THEN decided[f][x] ELSE "none"]
<1>3. /\ cache' = [cache EXCEPT ![f] = c] /\ decided' = [decided EXCEPT ![f] = d]
      /\ untrimmed' = untrimmed \ {f} /\ UNCHANGED feeds
  BY <1>2 DEF TrimCache
<1>4. \A g \in Requests \ {h} : req'[g] = req[g]
  BY OneRequest DEF TrimCache, Goto, Become, TypeOK
<1>5. c \in [Posts -> Post \cup {NoPost}] /\ d \in [Posts -> States \cup {"none"}]
  BY DEF PostsInv, PostTypes
<1>6. /\ \A x \in Posts : c[x] = (IF x \in Kept(f) THEN cache[f][x] ELSE NoPost)
      /\ \A x \in Posts : d[x] = (IF x \in Kept(f) THEN decided[f][x] ELSE "none")
  OBVIOUS
<1> HIDE DEF c, d
<1>7. /\ cache' \in [FeedIds -> [Posts -> Post \cup {NoPost}]] /\ cache'[f] = c
      /\ decided' \in [FeedIds -> [Posts -> States \cup {"none"}]] /\ decided'[f] = d
      /\ \A g \in FeedIds \ {f} : cache'[g] = cache[g] /\ decided'[g] = decided[g]
  BY <1>3, <1>5 DEF PostsInv, PostTypes
<1>8. PostTypes'
  BY <1>3, <1>7 DEF PostsInv, PostTypes
<1>9. Kept(f) \subseteq Cached(f) /\ Cached(f) \subseteq Posts
  BY DEF Kept, Newest, Pinned, Cached
<1>10. \A g \in FeedIds, x \in Posts : cache'[g][x] # NoPost => cache'[g][x] = cache[g][x] /\ decided'[g][x] = decided[g][x]
  <2> TAKE g \in FeedIds, x \in Posts
  <2> QED BY <1>6, <1>7
<1>11. Orphanless'
  BY <1>3, <1>10 DEF PostsInv, Orphanless, Cached, Exists
<1>12. Forgotten'
  <2> SUFFICES ASSUME NEW g \in FeedIds, NEW x \in Posts, cache'[g][x] = NoPost  PROVE decided'[g][x] = "none"
    BY DEF Forgotten
  <2> QED BY <1>6, <1>7 DEF PostsInv, Forgotten
<1>13. ShownWasAllowed'
  <2> SUFFICES ASSUME NEW g \in FeedIds, NEW y \in Posts, cache'[g][y] # NoPost, cache'[g][y].state = "approved"
               PROVE  \/ decided'[g][y] = "approved"
                      \/ feeds[g] # NoFeed /\ decided'[g][y] = "none" /\ feeds[g].moderation = "auto"
    BY <1>3 DEF ShownWasAllowed, ApprovedForDisplay, Cached, Exists
  <2>1. cache'[g][y] = cache[g][y] /\ decided'[g][y] = decided[g][y]
    BY <1>10
  <2>2. y \in ApprovedForDisplay(g)
    BY <2>1 DEF ApprovedForDisplay, Cached
  <2> QED BY <2>1, <2>2 DEF PostsInv, ShownWasAllowed, Exists
<1>14. CacheCapped'
  <2>1. Cardinality(Loose(f)') <= CacheMax
    <3>1. Loose(f)' \subseteq Newest(f)
      <4> SUFFICES ASSUME NEW x \in Posts, cache'[f][x] # NoPost, ~cache'[f][x].pinned  PROVE x \in Newest(f)
        BY DEF Loose, Cached, Pinned
      <4> QED BY <1>6, <1>7 DEF Kept, Pinned
    <3>2. IsFiniteSet(Newest(f))
      <4>1. Newest(f) \subseteq Cached(f)
        BY DEF Newest
      <4> QED BY <4>1, LooseFinite, FS_Subset
    <3>3. Cardinality(Loose(f)') <= Cardinality(Newest(f)) /\ Cardinality(Newest(f)) \in Nat
      BY <3>1, <3>2, FS_Subset, FS_CardinalityType
    <3> QED BY <3>3, NewestCapped, LooseFinite2, SocialAssumption
  <2>2. \A g \in FeedIds \ {f} : Loose(g)' = Loose(g)
    BY <1>7 DEF Loose, Cached, Pinned
  <2>3. \A g \in FeedIds \ {f} : g \in untrimmed \/ Watched(g) => g \in untrimmed' \/ Watched(g)'
    BY <1>2, <1>3, <1>4 DEF Watched
  <2> QED BY <2>1, <2>2, <2>3, CappedStep DEF PostsInv
<1> QED BY <1>8, <1>11, <1>12, <1>13, <1>14 DEF PostsInv

\* A deleted feed's posts go with it.
LEMMA DeletePosts ==
  ASSUME TypeOK, Owners, PostsInv, NEW h \in Requests, DeleteFeed(h)
  PROVE  PostsInv'
<1>1. /\ req[h].pc = "delete" /\ req[h].feed \in FeedIds
      /\ feeds' = [feeds EXCEPT ![req[h].feed] = NoFeed]
      /\ \A g \in Requests \ {h} : req'[g] = req[g]
  BY DeleteStep
<1>2. PICK f \in FeedIds : f = req[h].feed
  BY <1>1
<1>3. /\ cache' = [cache EXCEPT ![f] = [x \in Posts |-> NoPost]]
      /\ decided' = [decided EXCEPT ![f] = [x \in Posts |-> "none"]]
      /\ UNCHANGED untrimmed
  BY <1>2 DEF DeleteFeed
<1>4. /\ cache' \in [FeedIds -> [Posts -> Post \cup {NoPost}]] /\ \A x \in Posts : cache'[f][x] = NoPost
      /\ decided' \in [FeedIds -> [Posts -> States \cup {"none"}]] /\ \A x \in Posts : decided'[f][x] = "none"
      /\ \A g \in FeedIds \ {f} : cache'[g] = cache[g] /\ decided'[g] = decided[g] /\ feeds'[g] = feeds[g]
      /\ feeds'[f] = NoFeed
  BY <1>1, <1>2, <1>3 DEF PostsInv, PostTypes, TypeOK
<1>5. PostTypes'
  BY <1>3, <1>4 DEF PostsInv, PostTypes
<1>6. Orphanless'
  BY <1>4 DEF PostsInv, Orphanless, Cached, Exists
<1>7. Forgotten'
  BY <1>4 DEF PostsInv, Forgotten
<1>8. ShownWasAllowed'
  BY <1>4 DEF PostsInv, ShownWasAllowed, ApprovedForDisplay, Cached, Exists
<1>9. CacheCapped'
  <2>1. Cardinality(Loose(f)') <= CacheMax
    <3>1. Loose(f)' = {}
      BY <1>4 DEF Loose, Cached
    <3> QED BY <3>1, FS_EmptySet, SocialAssumption
  <2>2. \A g \in FeedIds \ {f} : Loose(g)' = Loose(g)
    BY <1>4 DEF Loose, Cached, Pinned
  <2>3. \A g \in FeedIds \ {f} : g \in untrimmed \/ Watched(g) => g \in untrimmed' \/ Watched(g)'
    BY <1>1, <1>3 DEF Watched
  <2> QED BY <2>1, <2>2, <2>3, CappedStep DEF PostsInv
<1> QED BY <1>5, <1>6, <1>7, <1>8, <1>9 DEF PostsInv

\* A moderator changes one cached post.
LEMMA ModeratorPosts ==
  ASSUME TypeOK, PostsInv, NEW f \in FeedIds, NEW x \in Posts,
         (\E state \in Decisions : Moderate(f, x, state)) \/ (\E pinned \in BOOLEAN : SetPinned(f, x, pinned)) \/ DeletePost(f, x)
  PROVE  PostsInv'
<1>1. /\ UNCHANGED <<feeds, req>> /\ untrimmed \subseteq untrimmed' /\ untrimmed' \in SUBSET FeedIds
      /\ cache[f][x] # NoPost /\ cache[f][x] \in Post /\ x \in Cached(f)
  BY DEF Moderate, SetPinned, DeletePost, Cached, PostsInv, PostTypes
<1>2. PICK p \in Post \cup {NoPost}, v \in States \cup {"none"} :
        /\ cache' = [cache EXCEPT ![f][x] = p] /\ decided' = [decided EXCEPT ![f][x] = v]
        /\ p = NoPost => v = "none"
        /\ p # NoPost => \/ p.state = v
                         \/ p.state = cache[f][x].state /\ v = decided[f][x]
        /\ \/ f \in untrimmed'
           \/ p = NoPost \/ p.pinned \/ p.pinned = cache[f][x].pinned
  <2>1. ASSUME NEW state \in Decisions, Moderate(f, x, state)
        PROVE  \E p \in Post, v \in States :
                 /\ cache' = [cache EXCEPT ![f][x] = p] /\ decided' = [decided EXCEPT ![f][x] = v]
                 /\ p.state = v /\ p.pinned = cache[f][x].pinned
    <3> DEFINE p == [cache[f][x] EXCEPT !.state = state]
    <3>1. state \in States
      BY SocialAssumption DEF States
    <3>2. p \in Post /\ p.state = state /\ p.pinned = cache[f][x].pinned
      BY <1>1, <3>1 DEF Post
    <3>3. cache' = [cache EXCEPT ![f][x] = p] /\ decided' = [decided EXCEPT ![f][x] = state]
      BY <2>1 DEF Moderate
    <3> QED BY <3>1, <3>2, <3>3
  <2>2. ASSUME NEW pinned \in BOOLEAN, SetPinned(f, x, pinned)
        PROVE  \E p \in Post :
                 /\ cache' = [cache EXCEPT ![f][x] = p] /\ decided' = decided
                 /\ p.state = cache[f][x].state /\ (f \in untrimmed' \/ p.pinned)
    <3> DEFINE p == [cache[f][x] EXCEPT !.pinned = pinned]
    <3>1. p \in Post /\ p.state = cache[f][x].state /\ p.pinned = pinned
      BY <1>1 DEF Post
    <3>2. cache' = [cache EXCEPT ![f][x] = p] /\ decided' = decided
      BY <2>2 DEF SetPinned
    <3>3. f \in untrimmed' \/ pinned
      BY <2>2 DEF SetPinned
    <3> QED BY <3>1, <3>2, <3>3
  <2>3. ASSUME DeletePost(f, x)
        PROVE  cache' = [cache EXCEPT ![f][x] = NoPost] /\ decided' = [decided EXCEPT ![f][x] = "none"]
    BY <2>3 DEF DeletePost
  <2>4. decided = [decided EXCEPT ![f][x] = decided[f][x]] /\ decided[f][x] \in States \cup {"none"}
    BY DEF PostsInv, PostTypes
  <2>5. NoPost \notin Post
    BY Nulls
  <2>6. CASE \E state \in Decisions : Moderate(f, x, state)
    BY <2>1, <2>5, <2>6
  <2>7. CASE \E pinned \in BOOLEAN : SetPinned(f, x, pinned)
    BY <2>2, <2>4, <2>5, <2>7
  <2>8. CASE DeletePost(f, x)
    BY <2>3, <2>8
  <2> QED BY <2>6, <2>7, <2>8
<1>3. /\ cache' \in [FeedIds -> [Posts -> Post \cup {NoPost}]]
      /\ decided' \in [FeedIds -> [Posts -> States \cup {"none"}]]
      /\ cache'[f][x] = p /\ decided'[f][x] = v
      /\ \A g \in FeedIds, y \in Posts : g # f \/ y # x => cache'[g][y] = cache[g][y] /\ decided'[g][y] = decided[g][y]
  BY <1>2 DEF PostsInv, PostTypes
<1>4. PostTypes'
  BY <1>1, <1>3 DEF PostTypes
<1>5. \A g \in FeedIds, y \in Posts : cache'[g][y] # NoPost => cache[g][y] # NoPost
  BY <1>1, <1>3
<1>6. Orphanless'
  BY <1>1, <1>5 DEF PostsInv, Orphanless, Cached, Exists
<1>7. Forgotten'
  BY <1>2, <1>3 DEF PostsInv, Forgotten
<1>8. ShownWasAllowed'
  <2> SUFFICES ASSUME NEW g \in FeedIds, NEW y \in Posts, cache'[g][y] # NoPost, cache'[g][y].state = "approved"
               PROVE  \/ decided'[g][y] = "approved"
                      \/ feeds[g] # NoFeed /\ decided'[g][y] = "none" /\ feeds[g].moderation = "auto"
    BY <1>1 DEF ShownWasAllowed, ApprovedForDisplay, Cached, Exists
  <2>1. \/ decided'[g][y] = "approved"
        \/ cache[g][y] # NoPost /\ cache[g][y].state = "approved" /\ decided'[g][y] = decided[g][y]
    <3>1. CASE g = f /\ y = x
      BY <1>1, <1>2, <1>3, <3>1
    <3>2. CASE g # f \/ y # x
      BY <1>3, <3>2
    <3> QED BY <3>1, <3>2
  <2> QED BY <2>1 DEF PostsInv, ShownWasAllowed, ApprovedForDisplay, Cached, Exists
<1>9. CacheCapped'
  <2>1. Loose(f)' \subseteq Loose(f) \/ f \in untrimmed'
    <3> SUFFICES ASSUME f \notin untrimmed', NEW y \in Posts, cache'[f][y] # NoPost, ~cache'[f][y].pinned
                 PROVE  cache[f][y] # NoPost /\ ~cache[f][y].pinned
      BY DEF Loose, Cached, Pinned
    <3>1. CASE y = x
      BY <1>1, <1>2, <1>3, <3>1
    <3>2. CASE y # x
      BY <1>3, <3>2
    <3> QED BY <3>1, <3>2
  <2>2. \A g \in FeedIds \ {f} : Loose(g)' = Loose(g)
    BY <1>3 DEF Loose, Cached, Pinned
  <2>3. \A g \in FeedIds : g \in untrimmed \/ Watched(g) => g \in untrimmed' \/ Watched(g)'
    BY <1>1 DEF Watched
  <2> QED BY <2>1, <2>2, <2>3, CappedStep DEF PostsInv
<1> QED BY <1>4, <1>6, <1>7, <1>8, <1>9 DEF PostsInv

-----------------------------------------------------------------------------
(* The theorems                                                            *)

\* What holds of every reachable state.
SocialInv == TypeOK /\ Owners /\ PostsInv

\* A switch, or the clock: a row keeps its token and its moderation.
LEMMA RowStep ==
  ASSUME TypeOK, (\E f \in FeedIds, on \in BOOLEAN : SetEnabled(f, on)) \/ Tick
  PROVE  feeds' \in [FeedIds -> Feed \cup {NoFeed}] /\ SameFeeds /\ UNCHANGED <<tokens, cache, last, req, history, bounds>>
<1>1. UNCHANGED <<tokens, cache, last, req, history, bounds>>
  BY DEF SetEnabled, Tick
<1>2. ASSUME NEW f \in FeedIds, NEW on \in BOOLEAN, SetEnabled(f, on)
      PROVE  feeds' \in [FeedIds -> Feed \cup {NoFeed}] /\ SameFeeds
  <2> DEFINE q == [feeds[f] EXCEPT !.enabled = on]
  <2>1. feeds' = [feeds EXCEPT ![f] = q] /\ Exists(f)
    BY <1>2 DEF SetEnabled
  <2>2. q \in Feed /\ q.token = feeds[f].token /\ q.moderation = feeds[f].moderation
    <3>1. feeds[f] \in Feed
      BY <2>1, FeedFields
    <3> QED BY <3>1 DEF Feed
  <2> HIDE DEF q
  <2> QED BY <2>1, <2>2, OneFeed
<1>3. ASSUME Tick
      PROVE  feeds' \in [FeedIds -> Feed \cup {NoFeed}] /\ SameFeeds
  <2>1. ASSUME NEW f \in FeedIds
        PROVE  /\ feeds'[f] \in Feed \cup {NoFeed} /\ (feeds'[f] # NoFeed <=> feeds[f] # NoFeed)
               /\ feeds[f] # NoFeed => feeds'[f].token = feeds[f].token /\ feeds'[f].moderation = feeds[f].moderation
    <3>1. CASE Exists(f) /\ feeds[f].wait > 0
      <4>1. feeds[f] \in Feed
        BY <3>1, FeedFields
      <4> DEFINE q == [feeds[f] EXCEPT !.wait = @ - 1]
      <4>2. q \in Feed /\ q.token = feeds[f].token /\ q.moderation = feeds[f].moderation
        BY <3>1, <4>1 DEF Feed
      <4>3. feeds'[f] = q
        BY <1>3, <3>1 DEF Tick
      <4>4. q # NoFeed
        BY <4>2, Nulls
      <4> QED BY <3>1, <4>2, <4>3, <4>4 DEF Exists
    <3>2. CASE ~(Exists(f) /\ feeds[f].wait > 0)
      <4>1. feeds'[f] = feeds[f]
        BY <1>3, <3>2 DEF Tick
      <4> QED BY <4>1 DEF TypeOK
    <3> QED BY <3>1, <3>2
  <2>2. feeds' = [f \in FeedIds |-> feeds'[f]]
    BY <1>3 DEF Tick
  <2> QED BY <2>1, <2>2 DEF SameFeeds, Exists
<1> QED BY <1>1, <1>2, <1>3

\* The posts of a feed that is being inserted: there are none yet.
LEMMA InsertPosts ==
  ASSUME TypeOK, Owners, PostsInv, NEW name \in Names, NEW t \in TokenIds \cup {None}, NEW mode \in {"manual", "auto"},
         InsertFeed(name, t, mode), last' = [last EXCEPT !.feed = @ + 1],
         UNCHANGED <<cache, decided, untrimmed>>,
         \A h \in Requests : req'[h] = req[h] \/ req[h].pc = "insert"
  PROVE  PostsInv' /\ feeds' \in [FeedIds -> Feed \cup {NoFeed}] /\ last' \in [feed: 0..MaxFeeds, token: 0..MaxTokens]
<1>1. /\ feeds' \in [FeedIds -> Feed \cup {NoFeed}] /\ last' \in [feed: 0..MaxFeeds, token: 0..MaxTokens]
      /\ ~Exists(last.feed + 1)
      /\ \A f \in FeedIds \ {last.feed + 1} : feeds'[f] = feeds[f]
  BY InsertedFeeds DEF Owners
<1>2. \A f \in FeedIds : Exists(f) => feeds'[f] # NoFeed /\ feeds'[f].moderation = feeds[f].moderation
  BY <1>1 DEF Exists
<1>3. untrimmed' \in SUBSET FeedIds /\ untrimmed \subseteq untrimmed'
  BY DEF PostsInv, PostTypes
<1>4. \A h \in Requests : req[h].pc \in {"store", "trim"} => req'[h].pc \in {"store", "trim"} /\ req'[h].feed = req[h].feed
  OBVIOUS
<1> QED BY <1>1, <1>2, <1>3, <1>4, PostsStill

LEMMA SocialInit == Init => SocialInv
<1> SUFFICES ASSUME Init PROVE SocialInv
  OBVIOUS
<1>1. /\ \A f \in FeedIds : feeds[f] = NoFeed /\ \A x \in Posts : cache[f][x] = NoPost /\ decided[f][x] = "none"
      /\ \A t \in TokenIds : tokens[t] = NoToken
      /\ \A h \in Requests : req[h] = Idle
      /\ last.feed = 0 /\ last.token = 0 /\ untrimmed = {} /\ left = {}
  BY DEF Init
<1>2. PostTypes /\ Orphanless
  BY <1>1 DEF Init, PostTypes, Orphanless, Cached
<1>3. TypeOK
  <2>1. req \in [Requests -> Request]
    BY Nulls DEF Init
  <2>2. last \in [feed: 0..MaxFeeds, token: 0..MaxTokens] /\ faults \in 0..MaxFaults
    BY SocialAssumption DEF Init
  <2> QED BY <1>2, <2>1, <2>2 DEF Init, TypeOK, PostTypes, Orphanless
<1>4. Owners
  BY <1>1, IdleFields DEF Owners, Numbered, ModerationKnown, CreationAlone, DeletionSound, TokenOwned,
                          Exists, Refreshing, Creating
<1>5. Forgotten /\ ShownWasAllowed
  BY <1>1 DEF Forgotten, ShownWasAllowed, ApprovedForDisplay, Cached
<1>6. CacheCapped
  <2> SUFFICES ASSUME NEW f \in FeedIds PROVE ~(Cardinality(Loose(f)) > CacheMax)
    BY DEF CacheCapped, Loose
  <2>1. Loose(f) = {}
    BY <1>1 DEF Loose, Cached
  <2> QED BY <2>1, FS_EmptySet, SocialAssumption
<1> QED BY <1>2, <1>3, <1>4, <1>5, <1>6 DEF SocialInv, PostsInv

LEMMA SocialStep == SocialInv /\ [Next]_vars => SocialInv'
<1> SUFFICES ASSUME SocialInv, [Next]_vars PROVE SocialInv'
  OBVIOUS
<1> USE DEF SocialInv
\* What is left to say of a step when its owners and its posts are done with.
<1> DEFINE Rest == /\ feeds' \in [FeedIds -> Feed \cup {NoFeed}] /\ tokens' \in [TokenIds -> Token \cup {NoToken}]
                   /\ last' \in [feed: 0..MaxFeeds, token: 0..MaxTokens]
                   /\ req' \in [Requests -> Request]
                   /\ left' \in SUBSET TokenIds /\ faults' \in 0..MaxFaults /\ kinds' \in Workloads
<1>0. feeds \in [FeedIds -> Feed \cup {NoFeed}] /\ tokens \in [TokenIds -> Token \cup {NoToken}]
      /\ last \in [feed: 0..MaxFeeds, token: 0..MaxTokens] /\ req \in [Requests -> Request]
      /\ left \in SUBSET TokenIds /\ faults \in 0..MaxFaults /\ kinds \in Workloads
      /\ untrimmed \in SUBSET FeedIds
  BY DEF TypeOK
<1>1. SUFFICES Owners' /\ PostsInv' /\ Rest
  BY DEF TypeOK, PostsInv, PostTypes, Orphanless
<1> HIDE DEF SocialInv
<1>a. TypeOK /\ Owners /\ PostsInv
  BY DEF SocialInv
<1>2. ASSUME NEW h \in Requests, NEW f \in FeedIds, Poll(h, f) \/ RefreshNow(h, f)
      PROVE  Owners' /\ PostsInv' /\ Rest
  <2>1. Quiet(h) /\ req[h].pc = "idle" /\ UNCHANGED <<cache, history, bounds>>
    BY <1>2, <1>a, BeginStep
  <2>2. Owners'
    BY <1>a, <2>1, QuietKeepsOwners
  <2>3. PostsInv'
    BY <1>a, <1>0, <2>1, PostsStill DEF Quiet, SameFeeds, history, Exists
  <2> QED BY <1>0, <2>1, <2>2, <2>3 DEF Quiet, history, bounds
<1>3. ASSUME NEW h \in Requests, DecryptToken(h) \/ Fetch(h) \/ FailFetch(h) \/ RecordSuccess(h) \/ RecordFailure(h)
      PROVE  Owners' /\ PostsInv' /\ Rest
  <2>1. /\ Quiet(h) /\ req[h].pc \in {"token", "fetch", "success", "failure"}
        /\ UNCHANGED <<cache, history, bounds>>
    BY <1>3, <1>a, FetchStep, RecordStep
  <2>2. Owners'
    BY <1>a, <2>1, QuietKeepsOwners
  <2>3. PostsInv'
    BY <1>a, <1>0, <2>1, PostsStill DEF Quiet, SameFeeds, history, Exists
  <2> QED BY <1>0, <2>1, <2>2, <2>3 DEF Quiet, history, bounds
<1>4. ASSUME NEW h \in Requests, UpsertPost(h) \/ TrimCache(h)
      PROVE  Owners' /\ PostsInv' /\ Rest
  <2>1. Quiet(h)
    BY <1>4, <1>a, PostStep
  <2>2. Owners'
    BY <1>a, <2>1, QuietKeepsOwners
  <2>3. PostsInv'
    BY <1>4, <1>a, UpsertPosts, TrimPosts
  <2>4. UNCHANGED <<faults, kinds>>
    BY <1>4 DEF UpsertPost, TrimCache, bounds
  <2> QED BY <1>0, <2>1, <2>2, <2>3, <2>4 DEF Quiet
<1>5. ASSUME NEW h \in Requests, SkipStatement(h)
      PROVE  Owners' /\ PostsInv' /\ Rest
  <2>1. Quiet(h)
    BY <1>5, <1>a, PostStep
  <2>2. Owners'
    BY <1>a, <2>1, QuietKeepsOwners
  <2>3. /\ req[h].pc \in {"store", "trim"} /\ Refreshing(h) /\ UNCHANGED <<feeds, cache, decided>>
        /\ untrimmed' = IF req[h].pc = "trim" THEN untrimmed \cup {req[h].feed} ELSE untrimmed
        /\ Goto(h, IF req[h].pc = "trim" THEN "success" ELSE "trim")
    BY <1>5 DEF SkipStatement, At, Refreshing
  <2>4. req[h].feed \in FeedIds
    BY <1>a, <2>3 DEF Owners, ModerationKnown
  <2>5. untrimmed' \in SUBSET FeedIds /\ untrimmed \subseteq untrimmed'
    BY <1>0, <2>3, <2>4
  <2>6. req[h].pc = "store" => req'[h].pc = "trim" /\ req'[h].feed = req[h].feed
    <3>1. SUFFICES ASSUME req[h].pc = "store" PROVE req'[h].pc = "trim" /\ req'[h].feed = req[h].feed
      OBVIOUS
    <3>2. req' = [req EXCEPT ![h] = [req[h] EXCEPT !.pc = "trim"]]
      BY <2>3, <3>1 DEF Goto, Become
    <3>3. req[h] \in Request
      BY <1>0
    <3> QED BY <1>0, <3>2, <3>3 DEF Request
  <2>7. \A g \in Requests : req[g].pc \in {"store", "trim"} =>
           \/ req'[g].pc \in {"store", "trim"} /\ req'[g].feed = req[g].feed
           \/ req[g].feed \in untrimmed'
    BY <2>1, <2>3, <2>6 DEF Quiet
  <2>8. PostsInv'
    BY <1>a, <2>3, <2>5, <2>7, PostsStill DEF Exists
  <2>9. faults' \in 0..MaxFaults
    BY <1>0, <1>5, SocialAssumption DEF SkipStatement
  <2> QED BY <1>0, <2>1, <2>2, <2>8, <2>9 DEF Quiet
<1>6. ASSUME NEW h \in Requests, GiveUp(h)
      PROVE  Owners' /\ PostsInv' /\ Rest
  <2>1. /\ Owners' /\ req' \in [Requests -> Request] /\ left' \in SUBSET TokenIds
        /\ UNCHANGED <<feeds, tokens, cache, last, decided, kinds>>
        /\ \A g \in Requests \ {h} : req'[g] = req[g]
    BY <1>6, <1>a, GiveUpStep
  <2>2. untrimmed' = IF req[h].pc \in {"store", "trim"} THEN untrimmed \cup {req[h].feed} ELSE untrimmed
    BY <1>6 DEF GiveUp
  <2>3. req[h].pc \in {"store", "trim"} => req[h].feed \in FeedIds
    BY <1>a DEF Owners, ModerationKnown, Refreshing
  <2>4. untrimmed' \in SUBSET FeedIds /\ untrimmed \subseteq untrimmed'
    BY <1>0, <2>2, <2>3
  <2>5. \A g \in Requests : req[g].pc \in {"store", "trim"} =>
           \/ req'[g].pc \in {"store", "trim"} /\ req'[g].feed = req[g].feed
           \/ req[g].feed \in untrimmed'
    BY <2>1, <2>2
  <2>6. PostsInv'
    BY <1>a, <2>1, <2>4, <2>5, PostsStill DEF Exists
  <2>7. faults' \in 0..MaxFaults
    BY <1>0, <1>6, SocialAssumption DEF GiveUp
  <2> QED BY <1>0, <2>1, <2>6, <2>7
<1>7. ASSUME NEW h \in Requests, NEW name \in Names, NEW mode \in {"manual", "auto"}, CreateWithoutToken(h, name, mode)
      PROVE  Owners' /\ PostsInv' /\ Rest
  <2>1. Owners'
    BY <1>7, <1>a, CreateStep
  <2>2. /\ InsertFeed(name, None, mode) /\ last' = [last EXCEPT !.feed = @ + 1]
        /\ UNCHANGED <<tokens, cache, req, history, bounds>>
    BY <1>7 DEF CreateWithoutToken
  <2>3. UNCHANGED <<cache, decided, untrimmed>> /\ \A g \in Requests : req'[g] = req[g]
    BY <2>2 DEF history
  <2>4. None \in TokenIds \cup {None}
    OBVIOUS
  <2>5. PostsInv' /\ feeds' \in [FeedIds -> Feed \cup {NoFeed}] /\ last' \in [feed: 0..MaxFeeds, token: 0..MaxTokens]
    BY <1>a, <2>2, <2>3, <2>4, InsertPosts
  <2> QED BY <1>0, <2>1, <2>2, <2>5 DEF history, bounds
<1>8. ASSUME NEW h \in Requests, CreateWithToken(h)
      PROVE  Owners' /\ PostsInv' /\ Rest
  <2>1. Owners' /\ req' \in [Requests -> Request]
    BY <1>8, <1>a, CreateTokenStep
  <2>2. PICK name \in Names, t \in TokenIds, mode \in {"manual", "auto"} : InsertFeed(name, t, mode)
    BY <1>8, <1>a, CreateTokenStep
  <2>3. /\ last' = [last EXCEPT !.feed = @ + 1] /\ UNCHANGED <<tokens, cache, history, bounds>>
        /\ req[h].pc = "insert" /\ req' = [req EXCEPT ![h] = Idle]
    BY <1>8 DEF CreateWithToken, At, Become
  <2>4. UNCHANGED <<cache, decided, untrimmed>> /\ \A g \in Requests : req'[g] = req[g] \/ req[g].pc = "insert"
    BY <1>0, <2>3 DEF history
  <2>5. PostsInv' /\ feeds' \in [FeedIds -> Feed \cup {NoFeed}] /\ last' \in [feed: 0..MaxFeeds, token: 0..MaxTokens]
    BY <1>a, <2>2, <2>3, <2>4, InsertPosts
  <2> QED BY <1>0, <2>1, <2>3, <2>5 DEF history, bounds
<1>9. ASSUME NEW h \in Requests, NEW name \in Names, NEW mode \in {"manual", "auto"}, StoreToken(h, name, mode)
      PROVE  Owners' /\ PostsInv' /\ Rest
  <2>1. /\ Owners' /\ req' \in [Requests -> Request] /\ tokens' \in [TokenIds -> Token \cup {NoToken}]
        /\ last' \in [feed: 0..MaxFeeds, token: 0..MaxTokens]
        /\ UNCHANGED <<feeds, cache, history, bounds>> /\ req[h].pc = "idle"
        /\ \A g \in Requests \ {h} : req'[g] = req[g]
    BY <1>9, <1>a, StoreStep
  <2>2. PostsInv'
    BY <1>a, <1>0, <2>1, PostsStill DEF history, Exists
  <2> QED BY <1>0, <2>1, <2>2 DEF history, bounds
<1>10. ASSUME NEW h \in Requests, SealToken(h)
       PROVE  Owners' /\ PostsInv' /\ Rest
  <2>1. /\ Owners' /\ req' \in [Requests -> Request] /\ tokens' \in [TokenIds -> Token \cup {NoToken}]
        /\ UNCHANGED <<feeds, cache, last, history, bounds>> /\ req[h].pc = "seal"
        /\ \A g \in Requests \ {h} : req'[g] = req[g]
    BY <1>10, <1>a, SealStep
  <2>2. PostsInv'
    BY <1>a, <1>0, <2>1, PostsStill DEF history, Exists
  <2> QED BY <1>0, <2>1, <2>2 DEF history, bounds
<1>11. ASSUME NEW h \in Requests, NEW f \in FeedIds, ReadForDelete(h, f)
       PROVE  Owners' /\ PostsInv' /\ Rest
  <2>1. /\ Owners' /\ req' \in [Requests -> Request]
        /\ UNCHANGED <<feeds, tokens, cache, last, history, bounds>> /\ req[h].pc = "idle"
        /\ \A g \in Requests \ {h} : req'[g] = req[g]
    BY <1>11, <1>a, ReadStep
  <2>2. PostsInv'
    BY <1>a, <1>0, <2>1, PostsStill DEF history, Exists
  <2> QED BY <1>0, <2>1, <2>2 DEF history, bounds
<1>12. ASSUME NEW h \in Requests, DeleteFeed(h)
       PROVE  Owners' /\ PostsInv' /\ Rest
  <2>1. Owners' /\ req' \in [Requests -> Request] /\ feeds' \in [FeedIds -> Feed \cup {NoFeed}]
    BY <1>12, <1>a, DeleteStep
  <2>2. PostsInv'
    BY <1>12, <1>a, DeletePosts
  <2>3. UNCHANGED <<tokens, last, left, bounds>>
    BY <1>12 DEF DeleteFeed
  <2> QED BY <1>0, <2>1, <2>2, <2>3 DEF bounds
<1>13. ASSUME NEW h \in Requests, DeleteToken(h)
       PROVE  Owners' /\ PostsInv' /\ Rest
  <2>1. /\ Owners' /\ req' \in [Requests -> Request] /\ tokens' \in [TokenIds -> Token \cup {NoToken}]
        /\ UNCHANGED <<feeds, cache, last, decided, untrimmed, bounds>> /\ left' \subseteq left
        /\ req[h].pc = "unseal" /\ \A g \in Requests \ {h} : req'[g] = req[g]
    BY <1>13, <1>a, DropStep
  <2>2. PostsInv'
    BY <1>a, <1>0, <2>1, PostsStill DEF Exists
  <2> QED BY <1>0, <2>1, <2>2 DEF bounds
<1>14. ASSUME (\E f \in FeedIds, on \in BOOLEAN : SetEnabled(f, on)) \/ Tick
       PROVE  Owners' /\ PostsInv' /\ Rest
  <2>1. feeds' \in [FeedIds -> Feed \cup {NoFeed}] /\ SameFeeds /\ UNCHANGED <<tokens, cache, last, req, history, bounds>>
    BY <1>14, <1>a, RowStep
  <2>2. Owners'
    <3>1. \A h \in Requests : req'[h] = req[h]
      BY <2>1
    <3> QED BY <1>a, <1>0, <2>1, <3>1, SameOwners DEF history
  <2>3. PostsInv'
    BY <1>a, <1>0, <2>1, PostsStill DEF SameFeeds, history, Exists
  <2> QED BY <1>0, <2>1, <2>2, <2>3 DEF history, bounds
<1>15. ASSUME NEW f \in FeedIds, NEW x \in Posts,
              (\E state \in Decisions : Moderate(f, x, state)) \/ (\E pinned \in BOOLEAN : SetPinned(f, x, pinned)) \/ DeletePost(f, x)
       PROVE  Owners' /\ PostsInv' /\ Rest
  <2>1. UNCHANGED <<feeds, tokens, last, req, left, bounds>>
    BY <1>15 DEF Moderate, SetPinned, DeletePost
  <2>2. Owners'
    <3>1. SameFeeds /\ \A h \in Requests : req'[h] = req[h]
      BY <2>1, SameRows
    <3> QED BY <1>a, <1>0, <2>1, <3>1, SameOwners
  <2>3. PostsInv'
    BY <1>a, <1>15, ModeratorPosts
  <2> QED BY <1>0, <2>1, <2>2, <2>3 DEF bounds
<1>16. ASSUME UNCHANGED vars
       PROVE  Owners' /\ PostsInv' /\ Rest
  <2>1. UNCHANGED <<feeds, tokens, cache, last, req, history, bounds>>
    BY <1>16 DEF vars
  <2>2. Owners'
    <3>1. SameFeeds /\ \A h \in Requests : req'[h] = req[h]
      BY <2>1, SameRows
    <3> QED BY <1>a, <1>0, <2>1, <3>1, SameOwners DEF history
  <2>3. PostsInv'
    BY <1>a, <1>0, <2>1, PostsStill DEF history, Exists
  <2> QED BY <1>0, <2>1, <2>2, <2>3 DEF history, bounds
<1>17. Modes \subseteq {"manual", "auto"}
  BY DEF Modes
<1> HIDE DEF Rest
<1>18. CASE Next
  <2>1. CASE \E h \in Requests : Refresh(h) \/ Finish(h) \/ GiveUp(h) \/ SkipStatement(h)
    BY <2>1, <1>3, <1>4, <1>5, <1>6, <1>8, <1>10, <1>12, <1>13 DEF Refresh, Finish
  <2>2. CASE \E h \in Requests, f \in FeedIds : Poll(h, f) \/ RefreshNow(h, f) \/ ReadForDelete(h, f)
    BY <2>2, <1>2, <1>11
  <2>3. CASE \E h \in Requests, name \in Names, mode \in Modes : CreateWithoutToken(h, name, mode) \/ StoreToken(h, name, mode)
    BY <2>3, <1>7, <1>9, <1>17
  <2>4. CASE (\E f \in FeedIds, on \in BOOLEAN : SetEnabled(f, on)) \/ Tick
    BY <2>4, <1>14
  <2>5. CASE \E f \in FeedIds, x \in Posts :
               \/ \E state \in Decisions : Moderate(f, x, state)
               \/ \E pinned \in BOOLEAN : SetPinned(f, x, pinned)
               \/ DeletePost(f, x)
    BY <2>5, <1>15
  <2> QED BY <1>18, <2>1, <2>2, <2>3, <2>4, <2>5 DEF Next
<1> QED BY <1>16, <1>18

\* Whatever overlaps and whatever is cut short, the invariant holds.
THEOREM SocialIsSound == Spec => []SocialInv
BY SocialInit, SocialStep, PTL DEF Spec

\* The tables, the ids taken and the requests keep their types, and no post is cached of
\* a feed that is gone.
THEOREM SocialTypes == Spec => []TypeOK
BY SocialIsSound, PTL DEF SocialInv

\* No refetch overrules a moderator: what is shown was approved, or is the newest word of
\* an automatic feed that still exists.
THEOREM DecisionsRespected == Spec => []ShownWasAllowed
BY SocialIsSound, PTL DEF SocialInv, PostsInv

\* Every feed's token is readable and its own from creation to deletion, and no
\* credential is lost unless a fault left it over.
THEOREM TokensOwned == Spec => []TokenOwned
BY SocialIsSound, PTL DEF SocialInv, Owners

\* A feed is over its cap of posts only while a refresh is about to trim it, or when one
\* was kept from it.
THEOREM CachesCapped == Spec => []CacheCapped
BY SocialIsSound, PTL DEF SocialInv, PostsInv
=============================================================================
