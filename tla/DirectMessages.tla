-------------------------- MODULE DirectMessages --------------------------
(***************************************************************************)
(* What the sidecar promises the senders of direct messages: one that has  *)
(* been taken in is never dropped in silence.  It is held until it has     *)
(* been typed or given up, then a receipt is owed until the server has it. *)
(***************************************************************************)
CONSTANT DMs

VARIABLES
  at,       \* where each message is
  saved,    \* the sidecar would find the messages there if it were killed
  faults    \* which of these have happened: a save fails ("disk"), a kill
            \* between two saves that belong together ("torn"), a kill in the
            \* middle of a save ("cut")

Places == {"away", "held", "owed", "answered", "lost"}

(* The ways of one message.  A full queue may push it out as it comes.     *)
(* When two flushes of receipts run at once, the later to end forgets what *)
(* was added for the other; the receipt still arrives if the other sends   *)
(* it, and is owed again if the other fails to or the message is typed     *)
(* once more.                                                              *)
Ways == {<<"away", "held">>, <<"away", "owed">>, <<"held", "owed">>,
         <<"owed", "answered">>, <<"owed", "lost">>, <<"lost", "owed">>,
         <<"lost", "answered">>}

(* Several messages move together when they were typed as one.  As long as *)
(* no save fails, every step is saved.                                     *)
Move ==
  /\ at' \in [DMs -> Places]
  /\ \A d \in DMs : at'[d] = at[d] \/ <<at[d], at'[d]>> \in Ways
  /\ saved' \in BOOLEAN /\ ("disk" \notin faults => saved')
  /\ UNCHANGED faults

SavesFail == faults' = faults \cup {"disk"} /\ UNCHANGED <<at, saved>>

(* A kill between two saves forgets receipts that were about to be owed,   *)
(* for good.                                                               *)
Tear ==
  /\ "torn" \notin faults /\ faults' = faults \cup {"torn"}
  /\ at' \in [DMs -> Places]
  /\ \A d \in DMs : at'[d] = at[d] \/ <<at[d], at'[d]>> \in Ways \cup {<<"held", "lost">>}
  /\ saved' = TRUE

(* A kill in the middle of a save leaves no file, and the messages are as  *)
(* if they had never been taken in, save for those that are answered.      *)
Wipe ==
  /\ "cut" \notin faults /\ faults' = faults \cup {"cut"}
  /\ at' = [d \in DMs |-> IF at[d] = "answered" THEN "answered" ELSE "away"]
  /\ saved' = TRUE

(* Any other crash takes the messages back to what the file says, which is *)
(* where they are unless the last save failed.  If it did, the file may be *)
(* old or empty, but no message that is held gets lost.                    *)
FallBack ==
  /\ ~saved /\ saved' = TRUE
  /\ at' \in [DMs -> Places]
  /\ \A d \in DMs : \/ at'[d] = at[d]
                    \/ at[d] # "answered" /\ at'[d] \in {"away", "held", "owed"}
                    \/ at[d] = "owed" /\ at'[d] = "lost"
  /\ UNCHANGED faults

Init == at = [d \in DMs |-> "away"] /\ saved = TRUE /\ faults = {}

Next == Move \/ SavesFail \/ Tear \/ Wipe \/ FallBack

Spec == Init /\ [][Next]_<<at, saved, faults>>
=============================================================================
