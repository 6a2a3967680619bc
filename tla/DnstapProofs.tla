---------------------------- MODULE DnstapProofs ----------------------------
(***************************************************************************)
(* Proofs about Dnstap: of the types for any caller, of the rest for one   *)
(* that keeps to the rules, whatever the frames and however long it goes   *)
(* on building, decoding, changing, encoding and cleaning up.              *)
(***************************************************************************)
EXTENDS Dnstap, TLAPS

(* What was unpacked is there as long as the struct points to it.           *)
UnpackedInv ==
    /\ unpacked \in {None} \cup Frames
    /\ dnstap.data = "unpacked" <=> unpacked # None
    /\ dnstap.message = "unpacked" => message.data = "unpacked"
    /\ message.data = "unpacked" => unpacked # None /\ unpacked.message # None
    /\ message.policy = "unpacked" =>
          message.data = "unpacked" /\ unpacked.message.policy # None
    /\ policy.data = "unpacked" => message.data = "unpacked"
    /\ unpacked_policy # "own"

(* A struct that may be used leads to nothing that is freed.                *)
FreedInv ==
    /\ dnstap.message = "freed" => dnstap.data = "freed"
    /\ Usable /\ dnstap.message = "own" => message.data # "freed"
    /\ message.policy = "freed" => message.data = "freed"
    /\ message.policy = "own" /\ message.data # "freed" => policy.data # "freed"

(* The copies of what a pointer leads to say the same.                      *)
CopyInv ==
    /\ dnstap.message = "unpacked" =>
          LET m == unpacked.message IN
          /\ message.type = Known(m.type) /\ message.protocol = Given(m.protocol)
          /\ message.policy = PointerIf(m.policy # None)
          /\ unpacked_policy = message.policy
    /\ message.policy = "unpacked" =>
          LET p == unpacked.message.policy IN
          policy = [action |-> Given(p.action), data |-> PointerIf(p.data)]

Inv == TypeOK /\ NoBadMemory /\ UnpackedInv /\ FreedInv /\ CopyInv

-----------------------------------------------------------------------------
(* What is there differs from what is not.                                  *)
LEMMA SomePolicy == \A a, d : [action |-> a, data |-> d] # None
<1> SUFFICES ASSUME NEW a, NEW d
             PROVE  [action |-> a, data |-> d] # None
  OBVIOUS
<1>1. DOMAIN [action |-> a, data |-> d] # DOMAIN None
  BY DEF None
<1> QED BY <1>1

LEMMA SomeMessage == \A t, s, p : [type |-> t, protocol |-> s, policy |-> p] # None
<1> SUFFICES ASSUME NEW t, NEW s, NEW p
             PROVE  [type |-> t, protocol |-> s, policy |-> p] # None
  OBVIOUS
<1>1. DOMAIN [type |-> t, protocol |-> s, policy |-> p] # DOMAIN None
  BY DEF None
<1> QED BY <1>1

LEMMA SomeFrame == \A f \in Frames : f # None
<1> SUFFICES ASSUME NEW f \in Frames
             PROVE  f # None
  OBVIOUS
<1>1. DOMAIN f = {"type", "message"}
  BY DEF Frames
<1>2. DOMAIN f # DOMAIN None
  BY <1>1 DEF None
<1> QED BY <1>2

(* The types are kept by any caller.                                        *)
LEMMA InitTypeOK == Init => TypeOK
<1>1. /\ InitDnstap \in [type : Types, message : Pointer, data : Pointer]
      /\ InitMessage \in [type : {"UNKNOWN", "QUERY", "UPDATE"}, protocol : {"none", "UDP", "DOT"},
                          policy : Pointer, data : Pointer]
      /\ InitPolicy \in [action : {"none", "PASS"}, data : Pointer]
  BY DEF InitDnstap, InitMessage, InitPolicy, Types, Pointer
<1> QED BY <1>1 DEF Init, TypeOK

LEMMA NextTypeOK == TypeOK /\ [Next]_vars => TypeOK'
<1> SUFFICES ASSUME TypeOK, [Next]_vars
             PROVE  TypeOK'
  OBVIOUS
<1> USE DEF TypeOK, Types, Pointer
<1>1. CASE Initialize
  BY <1>1 DEF Initialize, InitDnstap, InitMessage, InitPolicy
<1>2. ASSUME NEW v \in Type, SetType(v)
      PROVE  TypeOK'
  <2>1. \A t \in Types, p \in Pointer :
           [dnstap EXCEPT !.type = t, !.message = p] \in [type : Types, message : Pointer, data : Pointer]
    OBVIOUS
  <2>2. dnstap' \in [type : Types, message : Pointer, data : Pointer]
    BY <1>2, <2>1 DEF SetType
  <2> QED BY <1>2, <2>2 DEF SetType
<1>3. ASSUME NEW v \in MessageType, MessageSetType(v)
      PROVE  TypeOK'
  BY <1>3 DEF MessageSetType
<1>4. ASSUME NEW v \in Protocol \ {"none"}, MessageSetProtocol(v)
      PROVE  TypeOK'
  BY <1>4 DEF MessageSetProtocol
<1>5. CASE UsePolicy
  BY <1>5 DEF UsePolicy
<1>6. CASE ClearPolicy
  BY <1>6 DEF ClearPolicy, InitPolicy
<1>7. ASSUME NEW v \in Action \ {"none"}, PolicySetAction(v)
      PROVE  TypeOK'
  BY <1>7 DEF PolicySetAction, Action, Given
<1>8. CASE PolicySetType
  BY <1>8 DEF PolicySetType
<1>9. CASE Encode
  BY <1>9 DEF Encode
<1>10. ASSUME NEW f \in Frames, Decode(f)
       PROVE  TypeOK'
  <2>1. f.type \in Type /\ f.message \in Messages
    BY DEF Frames
  <2>2. dnstap' \in [type : Types, message : Pointer, data : Pointer]
    BY <1>10, <2>1 DEF Decode, Known, PointerIf, Type
  <2>3. CASE f.message = None
    BY <1>10, <2>2, <2>3 DEF Decode
  <2>4. CASE f.message # None
    <3> DEFINE p == f.message.policy
    <3>1. /\ f.message.type \in MessageType /\ f.message.protocol \in Protocol
          /\ p \in Policies
      BY <2>1, <2>4 DEF Messages
    <3>2. p # None => p.action \in Action /\ p.data \in BOOLEAN
      BY <3>1 DEF Policies
    <3>3. /\ message' = [type |-> Known(f.message.type), protocol |-> Given(f.message.protocol),
                         policy |-> PointerIf(p # None), data |-> "unpacked"]
          /\ unpacked_policy' = PointerIf(p # None)
          /\ policy' = IF p = None THEN policy
                       ELSE [action |-> Given(p.action), data |-> PointerIf(p.data)]
          /\ UNCHANGED <<alloced, bad>>
      BY <1>10, <2>4 DEF Decode
    <3>4. /\ Known(f.message.type) \in {"UNKNOWN", "QUERY", "UPDATE"}
          /\ Given(f.message.protocol) \in {"none", "UDP", "DOT"}
          /\ \A there : PointerIf(there) \in {"null", "unpacked"}
      BY <3>1 DEF Known, Given, PointerIf, MessageType, Protocol
    <3>5. p # None => Given(p.action) \in {"none", "PASS"}
      BY <3>2 DEF Given, Action
    <3> HIDE DEF p
    <3> QED BY <2>2, <3>3, <3>4, <3>5
  <2> QED BY <2>3, <2>4
<1>11. CASE Cleanup
  BY ZenonT(30), <1>11 DEF Cleanup, Freed
<1>12. CASE UNCHANGED vars
  BY <1>12 DEF vars
<1> QED
  BY <1>1, <1>2, <1>3, <1>4, <1>5, <1>6, <1>7, <1>8, <1>9, <1>10, <1>11, <1>12 DEF Next

(* Every part of the struct holds a value it knows and every pointer is one *)
(* of the four kinds, for any caller and any frame: decoding replaces the   *)
(* values that are not known (dnstap.c:111-152).                            *)
THEOREM TypeCorrect == Spec => []TypeOK
  BY InitTypeOK, NextTypeOK, PTL DEF Spec

-----------------------------------------------------------------------------
(***************************************************************************)
(* A caller that keeps to the rules.                                       *)
(***************************************************************************)
LEMMA InitInv == Init => Inv
<1> SUFFICES ASSUME Init
             PROVE  Inv
  OBVIOUS
<1>1. TypeOK
  BY InitTypeOK
<1>2. NoBadMemory /\ UnpackedInv /\ FreedInv /\ CopyInv
  BY DEF Init, InitDnstap, InitMessage, InitPolicy, NoBadMemory, UnpackedInv, FreedInv, CopyInv, Usable
<1> QED BY <1>1, <1>2 DEF Inv

LEMMA NextInv == Careful /\ Inv /\ [Next]_vars => Inv'
<1> SUFFICES ASSUME Careful, Inv, [Next]_vars
             PROVE  Inv'
  OBVIOUS
<1> USE DEF Inv, NoBadMemory, UnpackedInv, FreedInv, CopyInv, Usable
<1>0. TypeOK'
  BY NextTypeOK
<1> USE <1>0
<1>1. CASE Initialize
  BY <1>1 DEF Initialize, InitDnstap, InitMessage, InitPolicy
<1>2. ASSUME NEW v \in Type, SetType(v)
      PROVE  Inv'
  <2>1. /\ dnstap'.data = dnstap.data /\ dnstap'.message \in {"own", "null"}
        /\ UNCHANGED <<message, policy, alloced, unpacked, unpacked_policy, bad>>
        /\ message.data # "freed"
    BY <1>2 DEF SetType, MayMessage, TypeOK
  <2> QED BY <2>1
<1>3. ASSUME NEW v \in MessageType, MessageSetType(v)
      PROVE  Inv'
  <2>1. /\ message'.data = message.data /\ message'.policy = message.policy
        /\ UNCHANGED <<dnstap, policy, alloced, unpacked, unpacked_policy, bad>>
        /\ dnstap.message # "unpacked"
    BY <1>3 DEF MessageSetType, MayChange, TypeOK
  <2> QED BY <2>1
<1>4. ASSUME NEW v \in Protocol \ {"none"}, MessageSetProtocol(v)
      PROVE  Inv'
  <2>1. /\ message'.data = message.data /\ message'.policy = message.policy
        /\ UNCHANGED <<dnstap, policy, alloced, unpacked, unpacked_policy, bad>>
        /\ dnstap.message # "unpacked"
    BY <1>4 DEF MessageSetProtocol, MayChange, TypeOK
  <2> QED BY <2>1
<1>5. CASE UsePolicy
  <2>1. /\ message'.data = message.data /\ message'.policy = "own"
        /\ UNCHANGED <<dnstap, policy, alloced, unpacked, unpacked_policy, bad>>
        /\ dnstap.message = "own" /\ policy.data # "freed"
    BY <1>5 DEF UsePolicy, MayUsePolicy, TypeOK
  <2> QED BY <2>1
<1>6. CASE ClearPolicy
  <2>1. /\ message'.data = message.data /\ message'.policy = "null"
        /\ policy'.data = "null"
        /\ UNCHANGED <<dnstap, alloced, unpacked, unpacked_policy, bad>>
        /\ dnstap.message # "unpacked"
    BY <1>6 DEF ClearPolicy, MayChange, TypeOK, InitPolicy
  <2> QED BY <2>1
<1>7. ASSUME NEW v \in Action \ {"none"}, PolicySetAction(v)
      PROVE  Inv'
  <2>1. /\ policy'.data = policy.data
        /\ UNCHANGED <<dnstap, message, alloced, unpacked, unpacked_policy, bad>>
        /\ message.policy # "unpacked"
    BY <1>7 DEF PolicySetAction, MaySetPolicy, TypeOK
  <2> QED BY <2>1
<1>8. CASE PolicySetType
  <2>1. /\ policy'.data = "own"
        /\ UNCHANGED <<dnstap, message, unpacked, unpacked_policy, bad>>
        /\ message.policy # "unpacked"
    BY <1>8 DEF PolicySetType, MaySetPolicyType, MaySetPolicy, TypeOK
  <2> QED BY <2>1
<1>9. CASE Encode
  <2>1. ~PacksFreed
    BY <1>9 DEF Encode, PacksFreed, PolicyPointer, TypeOK, Pointer
  <2> QED BY <1>9, <2>1 DEF Encode
<1>10. ASSUME NEW f \in Frames, Decode(f)
       PROVE  Inv'
  <2>1. /\ unpacked' = f /\ f # None
        /\ dnstap'.message = PointerIf(f.message # None) /\ dnstap'.data = "unpacked"
        /\ UNCHANGED bad
    BY <1>10, SomeFrame DEF Decode
  <2>2. unpacked = None
    BY <1>10 DEF Decode
  <2>3. CASE f.message = None
    <3>1. UNCHANGED <<message, policy>> /\ unpacked_policy' = "null"
      BY <1>10, <2>3 DEF Decode
    <3> QED BY <2>1, <2>2, <2>3, <3>1 DEF PointerIf
  <2>4. CASE f.message # None
    <3> DEFINE p == f.message.policy
    <3>1. /\ message'.type = Known(f.message.type)
          /\ message'.protocol = Given(f.message.protocol)
          /\ message'.policy = PointerIf(p # None) /\ message'.data = "unpacked"
          /\ unpacked_policy' = PointerIf(p # None)
          /\ p # None => policy' = [action |-> Given(p.action), data |-> PointerIf(p.data)]
      BY <1>10, <2>4 DEF Decode
    <3>2. message'.policy # "own" /\ message'.policy # "freed" /\ unpacked_policy' # "own"
      BY <3>1 DEF PointerIf
    <3> QED BY <2>1, <2>4, <3>1, <3>2 DEF PointerIf
  <2> QED BY <2>3, <2>4
<1>11. CASE Cleanup
  <2>1. /\ unpacked' = None /\ unpacked_policy' = "null" /\ UNCHANGED bad
        /\ dnstap'.message = Freed(dnstap.message) /\ dnstap'.data = "freed"
        /\ message'.policy = Freed(message.policy) /\ message'.data = Freed(message.data)
        /\ policy'.data = Freed(policy.data)
    BY <1>11 DEF Cleanup, TypeOK, Freed
  <2> QED BY <2>1 DEF Freed
<1>12. CASE UNCHANGED vars
  BY <1>12 DEF vars
<1> QED
  BY <1>1, <1>2, <1>3, <1>4, <1>5, <1>6, <1>7, <1>8, <1>9, <1>10, <1>11, <1>12 DEF Next

LEMMA Invariance == ASSUME Careful PROVE Spec => []Inv
  BY InitInv, NextInv, PTL DEF Spec

(* What is there after decoding, setting and cleaning up is what may be     *)
(* used: nothing that is freed is encoded or freed again, nor anything that *)
(* was not allocated, though the code checks none of it (dnstap.c:22-87,    *)
(* 183-210).                                                                *)
THEOREM MemoryIsSafe == ASSUME Careful PROVE Spec => []NoBadMemory
<1>1. Inv => NoBadMemory
  BY DEF Inv
<1> QED BY <1>1, Invariance, PTL

(* The copy that the accessors read and the frame that is encoded agree,    *)
(* along whatever pointers each is found.                                   *)
LEMMA CopiesAgree == Inv => ShowsWhatIsEncoded
<1> SUFFICES ASSUME Inv, Usable
             PROVE  Shown = Replaced(Packed)
  BY DEF ShowsWhatIsEncoded
<1> USE DEF Inv, UnpackedInv, FreedInv, CopyInv, Usable
<1>0. \A t \in Types : Known(t) = t
  BY DEF Known, Types
<1>1. dnstap.type \in Types /\ dnstap.message \in {"null", "own", "unpacked"}
  BY DEF TypeOK, Pointer
<1>2. /\ Known(message.type) = message.type /\ Given(message.protocol) = message.protocol
      /\ Given(policy.action) = policy.action
  BY DEF TypeOK, Known, Given
<1>3. CASE dnstap.message = "null"
  BY <1>0, <1>1, <1>3 DEF Shown, Packed, Replaced
<1>4. CASE dnstap.message # "null"
  <2> DEFINE m == unpacked.message  p == unpacked.message.policy
  <2>1. /\ dnstap.message = "own" => PolicyPointer = message.policy
        /\ dnstap.message = "unpacked" => PolicyPointer = message.policy
        /\ message.policy \in {"null", "own", "unpacked"}
        /\ dnstap.message = "unpacked" => message.policy # "own"
    BY <1>1, <1>4 DEF PolicyPointer, TypeOK, Pointer, PointerIf
  <2>2. unpacked # None => m \in Messages
    BY DEF Frames
  <2>3. message.policy = "unpacked" => /\ p \in [action : Action, data : BOOLEAN]
                                      /\ p # None
    BY <2>2 DEF Messages, Policies
  <2>4. /\ message.policy = "null" => PackedPolicy = None
        /\ message.policy = "own" => PackedPolicy = OwnPolicy
        /\ message.policy = "unpacked" => PackedPolicy = p
    BY <1>1, <1>4, <2>1 DEF PackedPolicy
  <2>5. message.policy # "null" => /\ PackedPolicy # None
                                  /\ OwnPolicy = [PackedPolicy EXCEPT !.action = Given(@)]
    <3>1. CASE message.policy = "own"
      <4>1. [OwnPolicy EXCEPT !.action = Given(@)] = OwnPolicy
        BY <1>2 DEF OwnPolicy
      <4> QED BY <3>1, <2>4, <4>1, SomePolicy DEF OwnPolicy
    <3>2. CASE message.policy = "unpacked"
      <4>1. policy.action = Given(p.action) /\ policy.data = PointerIf(p.data)
        BY <3>2
      <4>2. (policy.data # "null") = p.data
        BY <2>3, <3>2, <4>1 DEF PointerIf
      <4>3. OwnPolicy = [action |-> Given(p.action), data |-> p.data]
        BY <4>1, <4>2 DEF OwnPolicy
      <4>4. [p EXCEPT !.action = Given(@)] = [action |-> Given(p.action), data |-> p.data]
        BY <2>3, <3>2
      <4> QED BY <2>3, <2>4, <3>2, <4>3, <4>4
    <3> QED BY <3>1, <3>2, <2>1
  <2>6. /\ Packed.type = dnstap.type
        /\ Packed.message # None
        /\ Known(Packed.message.type) = message.type
        /\ Given(Packed.message.protocol) = message.protocol
        /\ Packed.message.policy = PackedPolicy
    <3>1. CASE dnstap.message = "own"
      <4>1. Packed = [type |-> dnstap.type,
                      message |-> [type |-> message.type, protocol |-> message.protocol,
                                   policy |-> PackedPolicy]]
        BY <3>1 DEF Packed
      <4> QED BY <4>1, <1>2, SomeMessage
    <3>2. CASE dnstap.message = "unpacked"
      <4>1. m \in [type : MessageType, protocol : Protocol, policy : Policies]
        BY <2>2, <3>2 DEF Messages
      <4>2. Packed = [type |-> dnstap.type, message |-> [m EXCEPT !.policy = PackedPolicy]]
        BY <3>2 DEF Packed
      <4>3. [m EXCEPT !.policy = PackedPolicy]
               = [type |-> m.type, protocol |-> m.protocol, policy |-> PackedPolicy]
        BY <4>1
      <4> QED BY <3>2, <4>2, <4>3, SomeMessage
    <3> QED BY <3>1, <3>2, <1>1, <1>4
  <2>7. PolicyPointer = message.policy
    BY <1>1, <1>4, <2>1
  <2>8. Known(dnstap.type) = dnstap.type
    BY <1>0, <1>1
  <2>9. Replaced(Packed).message =
           [type |-> message.type, protocol |-> message.protocol,
            policy |-> IF PackedPolicy = None THEN None
                       ELSE [PackedPolicy EXCEPT !.action = Given(@)]]
    BY <2>6 DEF Replaced
  <2>10. Shown.message = [type |-> message.type, protocol |-> message.protocol,
                          policy |-> IF message.policy = "null" THEN None ELSE OwnPolicy]
    BY <1>4, <2>7 DEF Shown
  <2>11. Shown.message = Replaced(Packed).message
    BY <2>4, <2>5, <2>9, <2>10
  <2> QED BY <2>6, <2>8, <2>11 DEF Shown, Replaced
<1> QED BY <1>3, <1>4

(* What the accessors show is what is encoded, for every frame and every    *)
(* way to change it that the rules allow: who relays a message relays what  *)
(* it has seen (dnstap.c:99-181, 197-210).                                  *)
THEOREM ShowsTruly == ASSUME Careful PROVE Spec => []ShowsWhatIsEncoded
  BY CopiesAgree, Invariance, PTL
=============================================================================
