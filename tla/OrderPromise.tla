---------------------------- MODULE OrderPromise ----------------------------
(***************************************************************************)
(* What the order manager promises a strategy about one request: it is     *)
(* worked on once, at most one order is sent and only while it is worked   *)
(* on, and after its end the strategy is told, and a row saved, once.      *)
(***************************************************************************)
EXTENDS Naturals

CONSTANT Reqs

VARIABLES phase, \* "idle", then "working", then "over"
          sent,  \* orders sent to the exchange
          told,  \* completion callbacks
          rows   \* trade records saved

vars == <<phase, sent, told, rows>>

Init == /\ phase = [r \in Reqs |-> "idle"]
        /\ sent = [r \in Reqs |-> 0]
        /\ told = [r \in Reqs |-> 0]
        /\ rows = [r \in Reqs |-> 0]

Begin(r) == /\ phase[r] = "idle"
            /\ phase' = [phase EXCEPT ![r] = "working"]
            /\ UNCHANGED <<sent, told, rows>>

Send(r) == /\ phase[r] = "working" /\ sent[r] = 0
           /\ sent' = [sent EXCEPT ![r] = 1]
           /\ UNCHANGED <<phase, told, rows>>

End(r) == /\ phase[r] = "working"
          /\ phase' = [phase EXCEPT ![r] = "over"]
          /\ UNCHANGED <<sent, told, rows>>

Tell(r) == /\ phase[r] = "over" /\ told[r] = 0
           /\ told' = [told EXCEPT ![r] = 1]
           /\ UNCHANGED <<phase, sent, rows>>

Record(r) == /\ told[r] = 1 /\ rows[r] = 0
             /\ rows' = [rows EXCEPT ![r] = 1]
             /\ UNCHANGED <<phase, sent, told>>

Next == \E r \in Reqs : Begin(r) \/ Send(r) \/ End(r) \/ Tell(r) \/ Record(r)

Spec == Init /\ [][Next]_vars
=============================================================================
