------------------------------- MODULE Social -------------------------------
(***************************************************************************)
(* Social feeds (internal/social): feeds and their encrypted tokens, the   *)
(* fetches that fill each feed's cache of posts, and moderation.           *)
(*                                                                         *)
(* Every statement commits by itself: creating a feed is three, deleting   *)
(* one three, and a refresh is a fetch between many.  Ids are taken in     *)
(* ascending order and never twice (AUTOINCREMENT).  Posts of a feed are   *)
(* numbered by their posted_at.                                            *)
(***************************************************************************)
EXTENDS Integers, FiniteSets

CONSTANTS
  Requests,    \* requests and fetches of the ingest worker, at the same time
  Names,       \* names of feeds
  MaxFeeds,    \* bound on feeds ever created
  MaxTokens,   \* bound on credentials ever stored
  Posts,       \* external ids of a feed's posts, later ones greater
  Decisions,   \* moderation states that moderators use here
  CacheMax,    \* posts kept for a feed
  RefreshSec, BackoffBase, BackoffCap,  \* in steps of the clock
  MaxFailures, \* consecutive failures are counted up to here
  MaxFaults,   \* bound on requests cut short
  Workloads    \* what comes together: posts, tokens, a second feed, deletion,
               \* manual refreshes, failing sources, toggles

ASSUME SocialAssumption ==
  /\ MaxFeeds \in Nat
  /\ MaxTokens \in Nat
  /\ Posts \subseteq Nat
  /\ IsFiniteSet(Posts)
  /\ Decisions \subseteq {"pending", "approved", "rejected", "hidden"}
  /\ CacheMax \in Nat \ {0}
  /\ RefreshSec \in Nat \ {0}
  /\ BackoffBase \in Nat \ {0}
  /\ BackoffCap \in Nat
  /\ MaxFailures \in Nat \ {0}
  /\ BackoffBase * 2 ^ (MaxFailures - 1) >= BackoffCap
  /\ MaxFaults \in Nat

VARIABLES
  feeds,      \* the social_feeds table
  tokens,     \* the credentials table, the part of it that feeds use
  cache,      \* the social_posts table
  last,       \* greatest ids taken in the first two
  req,        \* where each request is
  decided,    \* history: what a moderator last decided of a cached post
  untrimmed,  \* history: feeds left over the cap by a fault, or by unpinning
  left,       \* history: credentials left over by a fault
  faults,
  kinds       \* the workload

history == <<decided, untrimmed, left>>
bounds == <<faults, kinds>>
vars == <<feeds, tokens, cache, last, req, history, bounds>>

None == 0
FeedIds == 1..MaxFeeds
TokenIds == 1..MaxTokens
States == {"pending", "approved", "rejected", "hidden"}

NoFeed == [name |-> "none"]
Feed == [name: Names, token: TokenIds \cup {None}, enabled: BOOLEAN, moderation: {"manual", "auto"},
         failures: 0..MaxFailures, state: {"idle", "ok", "error"},
         wait: Nat]  \* steps until next_attempt_at

NoToken == [name |-> "none"]
Token == [name: Names, sealed: BOOLEAN]  \* its ciphertext is there

NoPost == [state |-> "none", pinned |-> FALSE]
Post == [state: States, pinned: BOOLEAN]

NoRow == [token |-> None, moderation |-> "manual", failures |-> 0]
Idle == [pc |-> "idle", feed |-> None, row |-> NoRow, name |-> "none", todo |-> {}]
Request == [pc: {"idle", "seal", "insert", "token", "fetch", "store", "trim", "success", "failure",
                 "delete", "unseal"},
            feed: FeedIds \cup {None},
            row: [token: TokenIds \cup {None}, moderation: {"manual", "auto"}, failures: 0..MaxFailures],
            name: Names \cup {"none"},
            todo: SUBSET Posts]  \* fetched, to be stored

Exists(f) == feeds[f] # NoFeed
Cached(f) == {x \in Posts : cache[f][x] # NoPost}
Pinned(f) == {x \in Cached(f) : cache[f][x].pinned}

TypeOK ==
  /\ feeds \in [FeedIds -> Feed \cup {NoFeed}]
  /\ tokens \in [TokenIds -> Token \cup {NoToken}]
  /\ cache \in [FeedIds -> [Posts -> Post \cup {NoPost}]]
  /\ last \in [feed: 0..MaxFeeds, token: 0..MaxTokens]
  /\ req \in [Requests -> Request]
  /\ decided \in [FeedIds -> [Posts -> States \cup {"none"}]]
  /\ untrimmed \in SUBSET FeedIds
  /\ left \in SUBSET TokenIds
  /\ faults \in 0..MaxFaults
  /\ kinds \in Workloads
  /\ \A f \in FeedIds : ~Exists(f) => Cached(f) = {}

At(h, pc) == req[h].pc = pc
Become(h, r) == req' = [req EXCEPT ![h] = r]
Goto(h, pc) == Become(h, [req[h] EXCEPT !.pc = pc])
Row(f) == [token |-> feeds[f].token, moderation |-> feeds[f].moderation, failures |-> feeds[f].failures]

-----------------------------------------------------------------------------
(* Feeds and tokens                                                        *)

Modes == IF "posts" \in kinds THEN {"manual", "auto"} ELSE {"manual"}

InsertFeed(name, token, moderation) ==
  /\ last.feed < MaxFeeds
  /\ "second" \in kinds \/ last.feed = 0
  /\ feeds' = [feeds EXCEPT ![last.feed + 1] =
                 [name |-> name, token |-> token, enabled |-> TRUE, moderation |-> moderation,
                  failures |-> 0, state |-> "idle", wait |-> 0]]

CreateWithoutToken(h, name, moderation) ==
  /\ At(h, "idle")
  /\ InsertFeed(name, None, moderation)
  /\ last' = [last EXCEPT !.feed = @ + 1]
  /\ UNCHANGED <<tokens, cache, req, history, bounds>>

\* Names of credentials are unique.
StoreToken(h, name, moderation) ==
  /\ At(h, "idle")
  /\ "tokens" \in kinds
  /\ last.token < MaxTokens
  /\ \A t \in TokenIds : tokens[t].name # name
  /\ last' = [last EXCEPT !.token = @ + 1]
  /\ tokens' = [tokens EXCEPT ![last'.token] = [name |-> name, sealed |-> FALSE]]
  /\ Become(h, [Idle EXCEPT !.pc = "seal", !.name = name,
                            !.row = [NoRow EXCEPT !.token = last'.token, !.moderation = moderation]])
  /\ UNCHANGED <<feeds, cache, history, bounds>>

SealToken(h) ==
  /\ At(h, "seal")
  /\ tokens' = [tokens EXCEPT ![req[h].row.token].sealed = TRUE]
  /\ Goto(h, "insert")
  /\ UNCHANGED <<feeds, cache, last, history, bounds>>

CreateWithToken(h) ==
  LET r == req[h] IN
  /\ At(h, "insert")
  /\ InsertFeed(r.name, r.row.token, r.row.moderation)
  /\ last' = [last EXCEPT !.feed = @ + 1]
  /\ Become(h, Idle)
  /\ UNCHANGED <<tokens, cache, history, bounds>>

ReadForDelete(h, f) ==
  /\ At(h, "idle")
  /\ "delete" \in kinds
  /\ Exists(f)
  /\ Become(h, [Idle EXCEPT !.pc = "delete", !.feed = f, !.row = Row(f)])
  /\ UNCHANGED <<feeds, tokens, cache, last, history, bounds>>

\* The posts go with the row.
DeleteFeed(h) ==
  LET f == req[h].feed IN
  /\ At(h, "delete")
  /\ feeds' = [feeds EXCEPT ![f] = NoFeed]
  /\ cache' = [cache EXCEPT ![f] = [x \in Posts |-> NoPost]]
  /\ decided' = [decided EXCEPT ![f] = [x \in Posts |-> "none"]]
  /\ IF req[h].row.token = None THEN Become(h, Idle) ELSE Goto(h, "unseal")
  /\ UNCHANGED <<tokens, last, untrimmed, left, bounds>>

\* Mutant of DropToken: the credential stays.
KeepToken(tok) == tokens

DropToken(tok) == [t \in TokenIds |-> IF t = tok THEN NoToken ELSE tokens[t]]
DeleteToken(h) ==
  /\ At(h, "unseal")
  /\ tokens' = DropToken(req[h].row.token)
  /\ left' = left \ {req[h].row.token}
  /\ Become(h, Idle)
  /\ UNCHANGED <<feeds, cache, last, decided, untrimmed, bounds>>

SetEnabled(f, on) ==
  /\ "toggle" \in kinds
  /\ Exists(f)
  /\ feeds' = [feeds EXCEPT ![f].enabled = on]
  /\ UNCHANGED <<tokens, cache, last, req, history, bounds>>

-----------------------------------------------------------------------------
(* Refresh                                                                 *)

BeginRefresh(h, f) ==
  /\ At(h, "idle")
  /\ Become(h, [Idle EXCEPT !.pc = IF feeds[f].token = None THEN "fetch" ELSE "token",
                            !.feed = f, !.row = Row(f)])
  /\ UNCHANGED <<feeds, tokens, cache, last, history, bounds>>

\* Mutant of DueFeeds: a feed that failed is not tried again.
DueHealthy == {f \in FeedIds : Exists(f) /\ feeds[f].enabled /\ feeds[f].wait = 0 /\ feeds[f].state # "error"}

DueFeeds == {f \in FeedIds : Exists(f) /\ feeds[f].enabled /\ feeds[f].wait = 0}

\* The ingest worker.
Poll(h, f) == f \in DueFeeds /\ BeginRefresh(h, f)

\* An editor refreshes any feed, due or not.
RefreshNow(h, f) == "manual" \in kinds /\ Exists(f) /\ BeginRefresh(h, f)

Readable(t) == tokens[t] # NoToken /\ tokens[t].sealed
DecryptToken(h) ==
  /\ At(h, "token")
  /\ Goto(h, IF Readable(req[h].row.token) THEN "fetch" ELSE "failure")
  /\ UNCHANGED <<feeds, tokens, cache, last, history, bounds>>

\* The source answers with some posts, the filters taken off.
Fetch(h) ==
  /\ At(h, "fetch")
  /\ \E S \in SUBSET Posts :
       /\ "posts" \in kinds \/ S = {}
       /\ Become(h, [req[h] EXCEPT !.pc = IF S = {} THEN "trim" ELSE "store", !.todo = S])
  /\ UNCHANGED <<feeds, tokens, cache, last, history, bounds>>

FailFetch(h) ==
  /\ At(h, "fetch")
  /\ "fail" \in kinds
  /\ Goto(h, "failure")
  /\ UNCHANGED <<feeds, tokens, cache, last, history, bounds>>

\* Mutant of Moderated: a refetched post is held or shown anew.
ModeratedAnew(p, moderation) == [state |-> IF moderation = "auto" THEN "approved" ELSE "pending", pinned |-> p.pinned]

\* What a moderator decided of a cached post stays; there is none of a new one.
Moderated(p, moderation) ==
  IF p # NoPost THEN p
  ELSE [state |-> IF moderation = "auto" THEN "approved" ELSE "pending", pinned |-> FALSE]

\* Mutant of UpsertPost: the foreign key is off.
StoreAnyway(h) ==
  LET f == req[h].feed IN
  /\ At(h, "store")
  /\ \E x \in req[h].todo :
       /\ cache' = [cache EXCEPT ![f][x] = Moderated(@, req[h].row.moderation)]
       /\ LET rest == req[h].todo \ {x} IN
          Become(h, [req[h] EXCEPT !.todo = rest, !.pc = IF rest = {} THEN "trim" ELSE "store"])
  /\ UNCHANGED <<feeds, tokens, last, history, bounds>>

\* No post is stored for a feed that is gone.
UpsertPost(h) ==
  LET f == req[h].feed IN
  /\ At(h, "store")
  /\ \E x \in req[h].todo :
       /\ cache' = IF Exists(f) THEN [cache EXCEPT ![f][x] = Moderated(@, req[h].row.moderation)]
                   ELSE cache
       /\ LET rest == req[h].todo \ {x} IN
          Become(h, [req[h] EXCEPT !.todo = rest, !.pc = IF rest = {} THEN "trim" ELSE "store"])
  /\ UNCHANGED <<feeds, tokens, last, history, bounds>>

\* Mutant of Newest: off by one.
NewestToo(f) == {x \in Cached(f) : Cardinality({y \in Cached(f) : y > x}) <= CacheMax}

\* Pinned posts take up room among the newest, and stay when they are older.
Newest(f) == {x \in Cached(f) : Cardinality({y \in Cached(f) : y > x}) < CacheMax}
Kept(f) == Newest(f) \cup Pinned(f)

TrimCache(h) ==
  LET f == req[h].feed  K == Kept(f) IN
  /\ At(h, "trim")
  /\ cache' = [cache EXCEPT ![f] = [x \in Posts |-> IF x \in K THEN @[x] ELSE NoPost]]
  /\ decided' = [decided EXCEPT ![f] = [x \in Posts |-> IF x \in K THEN @[x] ELSE "none"]]
  /\ untrimmed' = untrimmed \ {f}
  /\ Goto(h, "success")
  /\ UNCHANGED <<feeds, tokens, last, left, bounds>>

\* Doubles with every failure, up to the cap.
BackoffFor(n) ==
  LET d == BackoffBase * 2 ^ (n - 1) IN
  IF n = 0 THEN 0 ELSE IF d \in 0..BackoffCap THEN d ELSE BackoffCap

NextAttempt(n) == IF BackoffFor(n) > RefreshSec THEN BackoffFor(n) ELSE RefreshSec

\* The row is written as it was counted from, whatever happened since it was read.
Recorded(f, state, n) ==
  feeds' = IF Exists(f) THEN [feeds EXCEPT ![f].state = state, ![f].failures = n, ![f].wait = NextAttempt(n)]
           ELSE feeds

RecordSuccess(h) ==
  /\ At(h, "success")
  /\ Recorded(req[h].feed, "ok", 0)
  /\ Become(h, Idle)
  /\ UNCHANGED <<tokens, cache, last, history, bounds>>

RecordFailure(h) ==
  LET n == req[h].row.failures IN
  /\ At(h, "failure")
  /\ Recorded(req[h].feed, "error", IF n < MaxFailures THEN n + 1 ELSE n)
  /\ Become(h, Idle)
  /\ UNCHANGED <<tokens, cache, last, history, bounds>>

-----------------------------------------------------------------------------
(* Moderation                                                              *)

Moderate(f, x, state) ==
  /\ "posts" \in kinds
  /\ x \in Cached(f)
  /\ cache' = [cache EXCEPT ![f][x].state = state]
  /\ decided' = [decided EXCEPT ![f][x] = state]
  /\ UNCHANGED <<feeds, tokens, last, req, untrimmed, left, bounds>>

SetPinned(f, x, pinned) ==
  /\ "posts" \in kinds
  /\ x \in Cached(f)
  /\ cache' = [cache EXCEPT ![f][x].pinned = pinned]
  /\ untrimmed' = IF pinned THEN untrimmed ELSE untrimmed \cup {f}
  /\ UNCHANGED <<feeds, tokens, last, req, decided, left, bounds>>

DeletePost(f, x) ==
  /\ "posts" \in kinds
  /\ x \in Cached(f)
  /\ cache' = [cache EXCEPT ![f][x] = NoPost]
  /\ decided' = [decided EXCEPT ![f][x] = "none"]
  /\ UNCHANGED <<feeds, tokens, last, req, untrimmed, left, bounds>>

\* What handleSocialPlayer shows.
ApprovedForDisplay(f) == {x \in Cached(f) : cache[f][x].state = "approved"}

-----------------------------------------------------------------------------
(* Faults and the clock                                                    *)

\* A request ends early: cancelled, or a statement that must succeed failed.
GiveUp(h) ==
  LET r == req[h] IN
  /\ ~At(h, "idle")
  /\ faults < MaxFaults
  /\ faults' = faults + 1
  /\ Become(h, Idle)
  /\ left' = IF r.pc \in {"seal", "insert", "unseal"} THEN left \cup {r.row.token} ELSE left
  /\ untrimmed' = IF r.pc \in {"store", "trim"} THEN untrimmed \cup {r.feed} ELSE untrimmed
  /\ UNCHANGED <<feeds, tokens, cache, last, decided, kinds>>

\* A refresh goes on when a statement on posts fails.
SkipStatement(h) ==
  LET r == req[h] IN
  /\ faults < MaxFaults
  /\ faults' = faults + 1
  /\ \/ At(h, "store") /\ Goto(h, "trim") /\ UNCHANGED untrimmed
     \/ At(h, "trim") /\ Goto(h, "success") /\ untrimmed' = untrimmed \cup {r.feed}
  /\ UNCHANGED <<feeds, tokens, cache, last, decided, left, kinds>>

Tick ==
  /\ \E f \in FeedIds : Exists(f) /\ feeds[f].wait > 0
  /\ feeds' = [f \in FeedIds |-> IF Exists(f) /\ feeds[f].wait > 0
                                 THEN [feeds[f] EXCEPT !.wait = @ - 1] ELSE feeds[f]]
  /\ UNCHANGED <<tokens, cache, last, req, history, bounds>>

Refresh(h) ==
  \/ DecryptToken(h) \/ Fetch(h) \/ FailFetch(h) \/ UpsertPost(h) \/ TrimCache(h)
  \/ RecordSuccess(h) \/ RecordFailure(h)

Finish(h) == SealToken(h) \/ CreateWithToken(h) \/ DeleteFeed(h) \/ DeleteToken(h)

Init ==
  /\ feeds = [f \in FeedIds |-> NoFeed]
  /\ tokens = [t \in TokenIds |-> NoToken]
  /\ cache = [f \in FeedIds |-> [x \in Posts |-> NoPost]]
  /\ last = [feed |-> 0, token |-> 0]
  /\ req = [h \in Requests |-> Idle]
  /\ decided = [f \in FeedIds |-> [x \in Posts |-> "none"]]
  /\ untrimmed = {}
  /\ left = {}
  /\ faults = 0
  /\ kinds \in Workloads

Next ==
  \/ \E h \in Requests : Refresh(h) \/ Finish(h) \/ GiveUp(h) \/ SkipStatement(h)
  \/ \E h \in Requests, f \in FeedIds : Poll(h, f) \/ RefreshNow(h, f) \/ ReadForDelete(h, f)
  \/ \E h \in Requests, name \in Names, mode \in Modes :
       CreateWithoutToken(h, name, mode) \/ StoreToken(h, name, mode)
  \/ \E f \in FeedIds, on \in BOOLEAN : SetEnabled(f, on)
  \/ \E f \in FeedIds, x \in Posts :
       \/ \E state \in Decisions : Moderate(f, x, state)
       \/ \E pinned \in BOOLEAN : SetPinned(f, x, pinned)
       \/ DeletePost(f, x)
  \/ Tick

Spec == Init /\ [][Next]_vars

\* Requests run to their end, the worker takes every feed that stays due in turn, time
\* passes, and a source that is asked again and again answers in the end.
FairSpec ==
  /\ Spec
  /\ WF_vars(Tick)
  /\ \A h \in Requests : WF_vars(Refresh(h)) /\ WF_vars(Finish(h))
  /\ \A f \in FeedIds : /\ SF_vars(\E h \in Requests : Poll(h, f))
                        /\ SF_vars(\E h \in Requests : req[h].feed = f /\ Fetch(h))

-----------------------------------------------------------------------------
(* Properties                                                              *)

\* What the display shows of a feed was decided by a moderator, unless the feed is
\* automatic and no moderator has decided of the post: no refetch overrules a decision.
ShownWasAllowed ==
  \A f \in FeedIds : \A x \in ApprovedForDisplay(f) :
    \/ decided[f][x] = "approved"
    \/ Exists(f) /\ decided[f][x] = "none" /\ feeds[f].moderation = "auto"

\* A feed's token is there and readable from its creation to its deletion, and serves no
\* other feed; a credential without a feed belongs to a request under way or was left
\* over by one cut short.
TokenOwned ==
  /\ \A f \in FeedIds : Exists(f) /\ feeds[f].token # None => Readable(feeds[f].token)
  /\ \A f, g \in FeedIds : Exists(f) /\ Exists(g) /\ feeds[f].token = feeds[g].token => f = g \/ feeds[f].token = None
  /\ \A t \in TokenIds : tokens[t] # NoToken =>
       \/ \E f \in FeedIds : Exists(f) /\ feeds[f].token = t
       \/ \E h \in Requests : req[h].pc \in {"seal", "insert", "unseal"} /\ req[h].row.token = t
       \/ t \in left

\* A feed holds more posts than the cap, its pinned ones aside, only while a refresh is
\* about to trim it or when one was kept from doing so.
CacheCapped ==
  \A f \in FeedIds : Cardinality(Cached(f) \ Pinned(f)) > CacheMax =>
    \/ f \in untrimmed
    \/ \E h \in Requests : req[h].pc \in {"store", "trim"} /\ req[h].feed = f

\* A feed that stays enabled is fetched again, however often it failed and whoever else
\* refreshed it at the same time.
FeedRecovers ==
  \A f \in FeedIds : Exists(f) /\ feeds[f].enabled ~> ~Exists(f) \/ ~feeds[f].enabled \/ feeds[f].state = "ok"
=============================================================================
