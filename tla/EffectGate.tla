----------------------------- MODULE EffectGate -----------------------------
(***************************************************************************)
(* What the gateway promises of each effect it is asked for, mutation or   *)
(* read: it is invoked (a request for it leaves) at most once, only after  *)
(* it was entered, and never once it is recorded as excluded or its        *)
(* outcome as unknown.  An entered effect may never be invoked, and an     *)
(* unknown outcome says nothing; one on record was invoked.                *)
(***************************************************************************)
EXTENDS Naturals

CONSTANT Effect

VARIABLES
  status,   \* effect -> where it stands
  invoked   \* effect -> how often it was invoked

gate == <<status, invoked>>

Status == {"free", "reserved", "excluded", "entered", "unknown", "recorded"}

GateInit ==
  /\ status = [e \in Effect |-> "free"]
  /\ invoked = [e \in Effect |-> 0]

Move(e, from, to) ==
  /\ status[e] \in from
  /\ status' = [status EXCEPT ![e] = to]

Reserve(e) == Move(e, {"free"}, "reserved") /\ UNCHANGED invoked
Exclude(e) == Move(e, {"free", "reserved"}, "excluded") /\ UNCHANGED invoked
EnterGate(e) == Move(e, {"reserved"}, "entered") /\ UNCHANGED invoked

Invoke(e) ==
  /\ status[e] = "entered" /\ invoked[e] = 0
  /\ invoked' = [invoked EXCEPT ![e] = 1]
  /\ UNCHANGED status

GiveUp(e) == Move(e, {"entered"}, "unknown") /\ UNCHANGED invoked

Record(e) ==
  /\ invoked[e] = 1
  /\ Move(e, {"entered", "unknown"}, "recorded")
  /\ UNCHANGED invoked

GateNext ==
  \E e \in Effect :
    Reserve(e) \/ Exclude(e) \/ EnterGate(e) \/ Invoke(e) \/ GiveUp(e) \/ Record(e)

GateSpec == GateInit /\ [][GateNext]_gate
=============================================================================
