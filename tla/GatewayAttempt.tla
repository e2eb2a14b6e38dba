--------------------------- MODULE GatewayAttempt ---------------------------
(***************************************************************************)
(* The transition rule of the gateway's attempt journal                    *)
(* (auths-gateway-kernel/src/transition.rs): which stored view of an       *)
(* attempt may replace which.  Every write the gateway makes to a journal  *)
(* record after its insertion passes this one rule, so the module has no   *)
(* state of its own.                                                       *)
(*                                                                         *)
(* An optional field is a set with at most one element: the code's absent  *)
(* byte string is {}, a recorded one is {bytes}.                           *)
(***************************************************************************)
EXTENDS Naturals

CONSTANT MaxRevision    \* the last revision, 9007199254740991 in the code

ASSUME RevisionAssumption == MaxRevision \in Nat \ {0}

Protocol == {"Mutation", "Acquisition", "Disclosure"}

Stage == {"Reserved", "EntryGranted", "NotEntered", "Unknown",
          "ResponseRecorded", "Observed", "ObservedByProvider", "Acknowledged"}

Reading == {"None", "Match", "Mismatch", "EchoMismatch"}

Link == {"None", "Verified", "AfterResponse"}

(***************************************************************************)
(* What a stage says.                                                      *)
(***************************************************************************)
resolves_unknown(link) == link = "Verified"
requires_entry(stage) == stage \notin {"Reserved", "NotEntered"}
requires_response(stage) == stage \in {"ResponseRecorded", "Observed"}
permits_response(stage) ==
  stage \in {"ResponseRecorded", "Observed", "ObservedByProvider"}
terminal_stage(stage) ==
  stage \in {"NotEntered", "Observed", "ObservedByProvider", "Acknowledged"}

absent(field) == field = {}

\* Acquisitions and disclosures cannot carry each other's evidence.
protocol_consistent(v) ==
  \/ v.protocol = "Mutation" /\ v.stage # "Acknowledged" /\ absent(v.acknowledgement)
  \/ /\ v.protocol # "Mutation"
     /\ \/ /\ v.protocol = "Acquisition"
           /\ v.stage \in {"Reserved", "EntryGranted", "NotEntered", "Unknown",
                           "ResponseRecorded"}
           /\ absent(v.acknowledgement)
        \/ /\ v.protocol = "Disclosure"
           /\ v.stage \in {"Reserved", "EntryGranted", "NotEntered", "Unknown",
                           "Acknowledged"}
           /\ absent(v.response)
     /\ absent(v.pre_entry) /\ absent(v.locator)
     /\ ~v.observation /\ ~v.evidence
     /\ v.reading = "None" /\ v.link = "None"

\* The fields of a stored view agree with its stage.
consistent(v) ==
  /\ protocol_consistent(v)
  /\ v.revision \in 1..MaxRevision
  /\ requires_entry(v.stage) # absent(v.entry)
  /\ (v.stage = "Acknowledged") # absent(v.acknowledgement)
  /\ (v.stage = "NotEntered") = v.refusal
  /\ requires_response(v.stage) => ~absent(v.response)
  /\ ~absent(v.response) => permits_response(v.stage)
  /\ ~absent(v.locator) => ~absent(v.response)
  /\ (v.stage = "Observed") = (v.reading # "None")
  /\ v.reading # "None" => v.observation
  /\ (v.stage = "ObservedByProvider") = v.evidence
  /\ v.evidence => v.link # "None"
  /\ v.evidence => (~absent(v.response) \/ resolves_unknown(v.link))

(***************************************************************************)
(* What a transition may change.                                           *)
(***************************************************************************)
stage_transition_allowed(from, to, link) ==
  \/ from = "Reserved" /\ to \in {"Reserved", "NotEntered", "EntryGranted"}
  \/ from = "EntryGranted" /\ to \in {"Unknown", "ResponseRecorded", "Acknowledged"}
  \/ from = "Unknown" /\ to \in {"ResponseRecorded", "Acknowledged"}
  \/ from \in {"EntryGranted", "Unknown"} /\ to = "ObservedByProvider" /\ resolves_unknown(link)
  \/ from = "ResponseRecorded" /\ to \in {"Observed", "ObservedByProvider"}

\* A reservation checkpoint adds its pre-entry record exactly once.
checkpoint_valid(old, new) ==
  (old.stage = "Reserved" /\ new.stage = "Reserved")
    => absent(old.pre_entry) /\ ~absent(new.pre_entry)

\* The grant is added by the one step from reservation to entry.
entry_kept(old, new) ==
  IF old.stage = "Reserved" /\ new.stage = "EntryGranted"
    THEN absent(old.entry) /\ ~absent(new.entry)
    ELSE new.entry = old.entry

pre_entry_kept(old, new) ==
  \/ new.pre_entry = old.pre_entry
  \/ absent(old.pre_entry) /\ old.stage = "Reserved" /\ new.stage \in {"Reserved", "NotEntered"}

response_kept(old, new) ==
  \/ old.stage \in {"EntryGranted", "Unknown"} /\ new.stage = "ResponseRecorded"
  \/ new.response = old.response /\ new.locator = old.locator

acknowledgement_kept(old, new) ==
  IF old.stage \in {"EntryGranted", "Unknown"} /\ new.stage = "Acknowledged"
    THEN absent(old.acknowledgement) /\ ~absent(new.acknowledgement)
    ELSE new.acknowledgement = old.acknowledgement

plan_kept(old, new) == new.observation = old.observation /\ new.link = old.link

valid_transition(old, new) ==
  /\ new.protocol = old.protocol
  /\ old.revision < MaxRevision
  /\ new.revision = old.revision + 1
  /\ consistent(old)
  /\ entry_kept(old, new)
  /\ new.fixed = old.fixed
  /\ plan_kept(old, new)
  /\ stage_transition_allowed(old.stage, new.stage, old.link)
  /\ checkpoint_valid(old, new)
  /\ pre_entry_kept(old, new)
  /\ response_kept(old, new)
  /\ acknowledgement_kept(old, new)
  /\ consistent(new)
=============================================================================
