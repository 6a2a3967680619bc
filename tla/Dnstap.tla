------------------------------- MODULE Dnstap -------------------------------
(***************************************************************************)
(* src/src/dnstap.c and the macros of dnswire/dnstap.h: a struct dnstap is *)
(* built with setters or filled by decoding a frame, shown by accessors    *)
(* and encoded.  It holds copies of what was unpacked, and pointers: what  *)
(* the accessors show and what is encoded are found along different ones.  *)
(*                                                                         *)
(* A pointer is Null, to the struct's `own` part (or what its owner gave   *)
(* it), into what dnstap.unpacked_dnstap holds, or into what it held and   *)
(* is freed.  Of values that are treated alike one stands for all:         *)
(* `protocol` for the socket's protocol and family, `action` for the       *)
(* policy's action and match, `data` for the strings and bytes.            *)
(***************************************************************************)
EXTENDS Naturals

CONSTANT Careful  \* does the caller keep to the rules that are stated below?

ASSUME CarefulAssumption == Careful \in BOOLEAN

Pointer == {"null", "own", "unpacked", "freed"}

(* The values of the enumerations: those that the setters take, those that  *)
(* only decoding does (dnstap.h:136-172, dnstap.c:111-152), those it does    *)
(* not know.                                                                *)
Type        == {"MESSAGE", "invalid"}
MessageType == {"QUERY", "UPDATE", "invalid"}
Protocol    == {"none", "UDP", "DOT", "invalid"}
Action      == {"none", "PASS", "invalid"}

(* What is on the wire, and what an unpacked frame is.                      *)
None    == [none |-> TRUE]
Policies == {None} \cup [action : Action, data : BOOLEAN]
Messages == {None} \cup [type : MessageType, protocol : Protocol, policy : Policies]
Frames   == [type : Type, message : Messages]

(* What decoding makes of a value.                                          *)
Known(v) == CASE v = "invalid" -> "UNKNOWN" [] OTHER -> v
Given(v) == CASE v = "invalid" -> "none" [] OTHER -> v  \* has_... = false

VARIABLES
    dnstap,    \* [type, message : Pointer, data : Pointer]
    message,   \* [type, protocol, policy : Pointer, data : Pointer]
    policy,    \* [action, data : Pointer]
    alloced,   \* _policy_type_alloced
    unpacked,  \* unpacked_dnstap: None or the frame
    unpacked_policy,  \* the pointer unpacked_dnstap->message->policy
    bad        \* has memory been used or freed that may not be, or an assertion failed?

vars == <<dnstap, message, policy, alloced, unpacked, unpacked_policy, bad>>

(* Both types are required: the first value of the enumeration.             *)
InitDnstap  == [type |-> "MESSAGE", message |-> "null", data |-> "null"]
InitMessage == [type |-> "QUERY", protocol |-> "none", policy |-> "null", data |-> "null"]
InitPolicy  == [action |-> "none", data |-> "null"]

(* DNSTAP_INITIALIZER.                                                      *)
Init ==
    /\ dnstap = InitDnstap /\ message = InitMessage /\ policy = InitPolicy
    /\ alloced = FALSE
    /\ unpacked = None /\ unpacked_policy = "null"
    /\ bad = FALSE

-----------------------------------------------------------------------------
(***************************************************************************)
(* The message is followed to where dnstap.message points, the policy to   *)
(* where that message's policy does; encoding takes the values found so,   *)
(* the accessors take those of the struct's own parts.                     *)
(***************************************************************************)
PolicyPointer == CASE dnstap.message = "own" -> message.policy
                   [] dnstap.message = "null" -> "null"
                   [] OTHER -> unpacked_policy

OwnPolicy == [action |-> policy.action, data |-> policy.data # "null"]

PackedPolicy == CASE PolicyPointer = "own"  -> OwnPolicy
                  [] PolicyPointer = "null" -> None
                  [] OTHER -> unpacked.message.policy

Packed ==
    [type |-> dnstap.type,
     message |->
        CASE dnstap.message = "own"  -> [type |-> message.type, protocol |-> message.protocol,
                                         policy |-> PackedPolicy]
          [] dnstap.message = "null" -> None
          [] OTHER -> [unpacked.message EXCEPT !.policy = PackedPolicy]]

(* Does encoding follow a pointer to what is freed?                         *)
PacksFreed ==
    \/ dnstap.data = "freed"
    \/ dnstap.message = "freed"
    \/ dnstap.message = "own" /\ (message.data = "freed" \/ message.policy = "freed")
    \/ PolicyPointer = "own" /\ policy.data = "freed"

(* dnstap_has_message(), dnstap_message_has_policy() and the accessors.     *)
Shown ==
    [type |-> dnstap.type,
     message |->
        IF dnstap.message = "null" THEN None
        ELSE [type |-> message.type, protocol |-> message.protocol,
              policy |-> IF PolicyPointer = "null" THEN None ELSE OwnPolicy]]

(***************************************************************************)
(* The rules a caller has to know, for the code checks none of them:       *)
(*   - after dnstap_cleanup(), or a decode that fails after it, the struct *)
(*     is only decoded into or initialised;                                *)
(*   - a decoded message is changed only after dnstap_set_type() has made  *)
(*     the struct's own copy the message, and a decoded policy only after  *)
(*     dnstap_message_use_policy();                                        *)
(*   - neither is called on a copy that an earlier decode has left behind, *)
(*     and the policy's type is not set when _policy_type_alloced still    *)
(*     tells of an earlier one.                                            *)
(***************************************************************************)
Usable       == dnstap.data # "freed"
MayMessage   == Careful => Usable /\ message.data # "freed" /\ message.policy # "freed"
MayChange    == Careful => Usable /\ dnstap.message # "unpacked"
MayUsePolicy == Careful => Usable /\ dnstap.message = "own" /\ policy.data # "freed"
MaySetPolicy == Careful => Usable /\ message.policy # "unpacked"
MaySetPolicyType == /\ MaySetPolicy
                    /\ Careful => ~(alloced /\ policy.data \in {"unpacked", "freed"})

-----------------------------------------------------------------------------
(***************************************************************************)
(* Building.                                                               *)
(***************************************************************************)
Initialize ==
    /\ unpacked = None
    /\ dnstap' = InitDnstap /\ message' = InitMessage /\ policy' = InitPolicy
    /\ alloced' = FALSE
    /\ UNCHANGED <<unpacked, unpacked_policy, bad>>

SetType(v) ==
    /\ MayMessage
    /\ dnstap' = IF v = "MESSAGE"
                 THEN [dnstap EXCEPT !.type = v, !.message = "own"]
                 ELSE [dnstap EXCEPT !.type = "UNKNOWN", !.message = "null"]
    /\ UNCHANGED <<message, policy, alloced, unpacked, unpacked_policy, bad>>

MessageSetType(v) ==
    /\ MayChange
    /\ message' = [message EXCEPT !.type = IF v = "QUERY" THEN v ELSE "UNKNOWN"]
    /\ UNCHANGED <<dnstap, policy, alloced, unpacked, unpacked_policy, bad>>

MessageSetProtocol(v) ==
    /\ MayChange
    /\ message' = [message EXCEPT !.protocol = IF v = "UDP" THEN v ELSE "none"]
    /\ UNCHANGED <<dnstap, policy, alloced, unpacked, unpacked_policy, bad>>

(* dnstap_message_use_policy() writes to where dnstap.message points.       *)
UsePolicy ==
    /\ dnstap.message # "null"
    /\ MayUsePolicy
    /\ IF dnstap.message = "own"
       THEN message' = [message EXCEPT !.policy = "own"] /\ UNCHANGED unpacked_policy
       ELSE unpacked_policy' = "own" /\ UNCHANGED message
    /\ bad' = (bad \/ dnstap.message = "freed")
    /\ UNCHANGED <<dnstap, policy, alloced, unpacked>>

(* dnstap_message_clear_policy() writes to the struct's own message.        *)
ClearPolicy ==
    /\ MayChange
    /\ message' = [message EXCEPT !.policy = "null"]
    /\ policy' = InitPolicy
    /\ UNCHANGED <<dnstap, alloced, unpacked, unpacked_policy, bad>>

PolicySetAction(v) ==
    /\ MaySetPolicy
    /\ policy' = [policy EXCEPT !.action = Given(v)]
    /\ UNCHANGED <<dnstap, message, alloced, unpacked, unpacked_policy, bad>>

(* A string that was set before is freed: what policy.type points to now.   *)
PolicySetType ==
    /\ MaySetPolicyType
    /\ bad' = (bad \/ (alloced /\ policy.data \in {"unpacked", "freed"}))
    /\ policy' = [policy EXCEPT !.data = "own"]
    /\ alloced' = TRUE
    /\ UNCHANGED <<dnstap, message, unpacked, unpacked_policy>>

-----------------------------------------------------------------------------
(***************************************************************************)
(* Encoding and decoding.                                                  *)
(***************************************************************************)
(* Packed, unless a pointer leads to what is freed.                         *)
Encode ==
    /\ Careful => Usable
    /\ bad' = (bad \/ PacksFreed)
    /\ UNCHANGED <<dnstap, message, policy, alloced, unpacked, unpacked_policy>>

PointerIf(there) == IF there THEN "unpacked" ELSE "null"

(* Mutant: values that are not known are kept.                              *)
DecodeKeepsUnknown(f) ==
    /\ unpacked = None
    /\ unpacked' = f
    /\ dnstap' = [type |-> f.type, message |-> PointerIf(f.message # None), data |-> "unpacked"]
    /\ message' = IF f.message = None THEN message
                  ELSE [type |-> f.message.type, protocol |-> f.message.protocol,
                        policy |-> PointerIf(f.message.policy # None), data |-> "unpacked"]
    /\ UNCHANGED <<policy, alloced, unpacked_policy, bad>>

(* Mutant: the policy is not copied.                                        *)
DecodeNoPolicy(f) ==
    /\ unpacked = None
    /\ unpacked' = f
    /\ dnstap' = [type |-> Known(f.type), message |-> PointerIf(f.message # None),
                  data |-> "unpacked"]
    /\ message' = IF f.message = None THEN message
                  ELSE [type |-> Known(f.message.type), protocol |-> Given(f.message.protocol),
                        policy |-> PointerIf(f.message.policy # None), data |-> "unpacked"]
    /\ unpacked_policy' = PointerIf(f.message # None /\ f.message.policy # None)
    /\ UNCHANGED <<policy, alloced, bad>>

(* dnstap_decode_protobuf() of the frame f: copies of what is there, with   *)
(* the values that are not known replaced in the copies; where nothing is   *)
(* there the copy stays what it was.  A frame that does not unpack changes  *)
(* nothing.                                                                 *)
Decode(f) ==
    /\ unpacked = None  \* else an assertion fails
    /\ unpacked' = f
    /\ dnstap' = [type |-> Known(f.type), message |-> PointerIf(f.message # None),
                  data |-> "unpacked"]
    /\ IF f.message = None
       THEN UNCHANGED <<message, policy>> /\ unpacked_policy' = "null"
       ELSE LET p == f.message.policy IN
            /\ message' = [type |-> Known(f.message.type), protocol |-> Given(f.message.protocol),
                           policy |-> PointerIf(p # None), data |-> "unpacked"]
            /\ unpacked_policy' = PointerIf(p # None)
            /\ policy' = IF p = None THEN policy
                         ELSE [action |-> Given(p.action), data |-> PointerIf(p.data)]
    /\ UNCHANGED <<alloced, bad>>

Freed(p) == IF p = "unpacked" THEN "freed" ELSE p

(* Mutant: unpacked_dnstap goes on pointing to what is freed.               *)
CleanupKeeps ==
    /\ dnstap' = [dnstap EXCEPT !.message = Freed(@), !.data = Freed(@)]
    /\ message' = [message EXCEPT !.policy = Freed(@), !.data = Freed(@)]
    /\ policy' = [policy EXCEPT !.data = Freed(@)]
    /\ bad' = (bad \/ dnstap.data = "freed")
    /\ UNCHANGED <<unpacked, unpacked_policy, alloced>>

(* dnstap_cleanup() frees what was unpacked, and the policy its message     *)
(* points to with it.                                                       *)
Cleanup ==
    /\ unpacked # None
    /\ unpacked' = None /\ unpacked_policy' = "null"
    /\ dnstap' = [dnstap EXCEPT !.message = Freed(@), !.data = Freed(@)]
    /\ message' = [message EXCEPT !.policy = Freed(@), !.data = Freed(@)]
    /\ policy' = [policy EXCEPT !.data = Freed(@)]
    /\ bad' = (bad \/ unpacked_policy = "own")
    /\ UNCHANGED alloced

Next ==
    \/ Initialize
    \/ \E v \in Type : SetType(v)
    \/ \E v \in MessageType : MessageSetType(v)
    \/ \E v \in Protocol \ {"none"} : MessageSetProtocol(v)
    \/ UsePolicy
    \/ ClearPolicy
    \/ \E v \in Action \ {"none"} : PolicySetAction(v)
    \/ PolicySetType
    \/ Encode
    \/ \E f \in Frames : Decode(f)
    \/ Cleanup

Spec == Init /\ [][Next]_vars

-----------------------------------------------------------------------------
(***************************************************************************)
(* Properties.                                                             *)
(***************************************************************************)
Types == {"UNKNOWN", "MESSAGE"}

TypeOK ==
    /\ dnstap \in [type : Types, message : Pointer, data : Pointer]
    /\ message \in [type : {"UNKNOWN", "QUERY", "UPDATE"}, protocol : {"none", "UDP", "DOT"},
                    policy : Pointer, data : Pointer]
    /\ policy \in [action : {"none", "PASS"}, data : Pointer]
    /\ alloced \in BOOLEAN /\ bad \in BOOLEAN
    /\ unpacked_policy \in {"null", "own", "unpacked"}

(* Whatever is built, decoded, changed, encoded and cleaned up, in any      *)
(* order, by a caller that keeps to the rules: nothing freed is used,       *)
(* nothing is freed twice and nothing that was not allocated.               *)
NoBadMemory == ~bad

(* A frame with the values replaced that are not known.                     *)
Replaced(f) ==
    [type |-> Known(f.type),
     message |-> IF f.message = None THEN None
                 ELSE [type |-> Known(f.message.type), protocol |-> Given(f.message.protocol),
                       policy |-> IF f.message.policy = None THEN None
                                  ELSE [f.message.policy EXCEPT !.action = Given(@)]]]

(* What the accessors show is what is encoded, with the values replaced     *)
(* that are not known, whether it was built, decoded or changed after that: *)
(* who relays a message relays what it has seen, and who decodes it sees    *)
(* what was set (dnstap.c:99-181, 197-210, dnstap.h:129-131, 174).          *)
ShowsWhatIsEncoded == Usable => Shown = Replaced(Packed)

=============================================================================
