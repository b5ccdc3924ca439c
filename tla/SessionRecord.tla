---------------------------- MODULE SessionRecord ----------------------------
(***************************************************************************)
(* What src/lib/rotation.js promises of the session record of one agent:   *)
(* the commands that change it (bin/mousecrew.js: claim, session-record,   *)
(* session-activity) take effect one after another, each on the record the *)
(* one before it left.  SessionLock shows how the lock file keeps this.    *)
(***************************************************************************)
CONSTANTS
  Sessions,   \* session ids, each of one window
  Windows,
  WindowOf,   \* WindowOf[s]: the window session s runs in
  None

VARIABLE record   \* None, or a session and what its agent was last doing

Activities == {"busy", "idle"}
Record == [session : Sessions, activity : Activities \cup {"unknown"}]

IsOf(r, s)        == r # None /\ r.session = s
IsInWindow(r, W)  == r # None /\ WindowOf[r.session] \in W

Started(s)        == [session |-> s, activity |-> "unknown"]
Noted(s, a)       == [session |-> s, activity |-> a]

(* writeSessionRecord                                                      *)
Register(s) == record' = Started(s)

(* updateSessionActivity: only of the session on record.                   *)
Note(s, a) == IsOf(record, s) /\ record' = Noted(s, a)

(* invalidateMovedRecord: only of the windows that were left.              *)
Invalidate(W) == IsInWindow(record, W) /\ record' = None

Init == record = None

Next ==
  \/ \E s \in Sessions : Register(s)
  \/ \E s \in Sessions, a \in Activities : Note(s, a)
  \/ \E W \in SUBSET Windows : Invalidate(W)

Spec == Init /\ [][Next]_record
=============================================================================
