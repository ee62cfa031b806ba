----------------------------- MODULE PublishLog -----------------------------
(***************************************************************************)
(* What the playlist store promises (docs/architecture.md, "Atomic         *)
(* publishing"): one working copy, one live snapshot that only a publish   *)
(* or a rollback replaces, and a history of snapshots to go back to.  A    *)
(* snapshot is the set of its scenes.                                      *)
(***************************************************************************)

VARIABLES
  draft,    \* the working copy
  live,     \* {} before the first publish, afterwards the one live snapshot
  history   \* the snapshots a rollback can restore

Playable(snapshot) == {s \in snapshot : s.enabled /\ s.valid}

\* Publish refuses a snapshot that would be blank or show a broken scene.
Fit(snapshot) == /\ Playable(snapshot) # {}
                 /\ \A s \in snapshot : s.enabled => s.valid

Init == draft = {} /\ live = {} /\ history = {}

Edit == /\ draft' # draft
        /\ UNCHANGED <<live, history>>

Publish == /\ Fit(draft)
           /\ live' = {draft}
           /\ history' = history \cup {draft}
           /\ UNCHANGED draft

Rollback == \E snapshot \in history :
              /\ live' = {snapshot}
              /\ draft' = snapshot
              /\ UNCHANGED history

Discard == \E snapshot \in live :
             /\ draft' = snapshot
             /\ UNCHANGED <<live, history>>

Forget == /\ history' \subseteq history
          /\ live \subseteq history'
          /\ UNCHANGED <<draft, live>>

Next == Edit \/ Publish \/ Rollback \/ Discard \/ Forget

Spec == Init /\ [][Next]_<<draft, live, history>>
=============================================================================
