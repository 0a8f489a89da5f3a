-------------------------- MODULE GuardedCallProofs --------------------------
(***************************************************************************)
(* Proofs about GuardedCall, for any number of concurrent calls, every way *)
(* to guard the tool and every request: a tool that runs has been charged  *)
(* for, and the decision log is true.                                      *)
(***************************************************************************)
EXTENDS GuardedCall, TLAPS

CallRecord ==
    [pc : {"idle", "verifying", "awaiting", "delivering", "flushing", "notifying",
           "returning"} \cup Ended,
     ask : Asks, plan : Seq(Jti \cup {"checks"}), decision : {"none", "allowed", "denied"},
     reservation : {"none", "sent", "done", "refused", "failed"},
     delivery : {"none", "sent", "done", "failed"}]

(* What the answers of the tracker say of the charge, and what a decision  *)
(* says of the answer it was made on.                                      *)
Charging(c) ==
    /\ call[c].reservation \in {"none", "sent"} => charged[c] = {}
    /\ call[c].reservation = "refused" => charged[c] = {} \/ guard.retries
    /\ call[c].reservation = "done" => charged[c] = Reserved(call[c].ask)
    /\ call[c].decision = "allowed" =>
          Owed(call[c].ask) \subseteq charged[c] /\ call[c].reservation # "sent"
    /\ call[c].decision = "denied" => call[c].reservation \in {"none", "refused"}

(* Nothing is reserved before every check has passed, and nothing is told  *)
(* before there is a decision.                                             *)
Deciding(c) ==
    /\ call[c].pc \in {"idle", "verifying", "awaiting"} =>
          call[c].decision = "none" /\ call[c].delivery = "none"
    /\ call[c].pc \in {"idle", "verifying"} => call[c].reservation = "none"
    /\ call[c].pc = "verifying" =>
          \/ ~Refused(call[c].ask)
          \/ \E i \in 1 .. Len(call[c].plan) : call[c].plan[i] = "checks"
    /\ call[c].pc \in {"delivering", "flushing", "notifying"} => call[c].decision # "none"
    /\ call[c].pc = "delivering" => call[c].delivery = "none"
    /\ call[c].pc \in {"returning", "executed"} => call[c].decision = "allowed"
    /\ call[c].pc = "flushing" => lock = c /\ call[c].delivery = "none"

(* The one line of a call: not written, in the buffer, or in the file.     *)
Silent(c) == file[c] = <<>> /\ buffer[c] = <<>>
Buffered(c) == file[c] = <<>> /\ buffer[c] = <<call[c].decision>>
Durable(c) == file[c] = <<call[c].decision>> /\ buffer[c] = <<>>

Recording(c) ==
    /\ Silent(c) \/ Buffered(c) \/ Durable(c)
    /\ call[c].decision = "none" => Silent(c) /\ call[c].delivery = "none"
    /\ call[c].pc = "delivering" => Silent(c)
    /\ call[c].delivery = "sent" => Silent(c)
    /\ call[c].delivery = "done" => Durable(c)
    /\ call[c].pc = "flushing" => Buffered(c)
    /\ call[c].pc \in {"returning", "executed"} /\ guard.sink # "none" => Durable(c)

CallInv(c) == Charging(c) /\ Deciding(c) /\ Recording(c)

GuardInv == TypeOK /\ \A c \in Call : CallInv(c)

-----------------------------------------------------------------------------
(* The allowances a reservation charges cover the limits a call owes.      *)
LEMMA OwedIsReserved ==
    ASSUME TypeOK, NEW a \in Asks
    PROVE  Owed(a) \subseteq Reserved(a)
  <1>1. a.parent_limited => a.delegated
    BY GuardedCallAssumption
  <1> QED BY <1>1 DEF Owed, Reserved, NeedsChain, Jti

(* A request that may go without a tracker owes nothing.                   *)
LEMMA NothingOwed ==
    ASSUME TypeOK, NEW a \in Asks, guard.tracker = "none", ~Refused(a)
    PROVE  Owed(a) = {}
  <1>1. /\ ~a.limited /\ ~guard.requires_chain
        /\ a.parent_limited => a.limited
    BY GuardedCallAssumption DEF TypeOK, Refused
  <1> QED BY <1>1 DEF Owed

(* Every plan has the step that makes the checks.                          *)
LEMMA PlanChecks ==
    ASSUME NEW a \in Asks
    PROVE  /\ Plan(a) \in Seq(Jti \cup {"checks"})
           /\ \E i \in 1 .. Len(Plan(a)) : Plan(a)[i] = "checks"
  <1> DEFINE S == Jti \cup {"checks"}
             parent == IF a.delegated THEN <<"parent">> ELSE <<>>
             Good(p) == p \in Seq(S) /\ \E i \in 1 .. Len(p) : p[i] = "checks"
  <1>1. /\ parent \in Seq(S) /\ <<"self">> \in Seq(S) /\ <<"checks">> \in Seq(S)
        /\ Len(<<"checks">>) = 1 /\ <<"checks">>[1] = "checks"
    BY DEF Jti
  <1> HIDE DEF S, parent
  <1>2. ASSUME NEW p \in Seq(S), NEW q \in Seq(S), Good(p) \/ Good(q)
        PROVE  Good(p \o q)
    <2>1. /\ p \o q \in Seq(S) /\ Len(p \o q) = Len(p) + Len(q)
          /\ Len(p) \in Nat /\ Len(q) \in Nat
          /\ \A i \in 1 .. Len(p) : (p \o q)[i] = p[i]
          /\ \A i \in 1 .. Len(q) : (p \o q)[Len(p) + i] = q[i]
      OBVIOUS
    <2>2. CASE Good(p)
      BY <2>1, <2>2
    <2>3. CASE Good(q)
      <3>1. PICK i \in 1 .. Len(q) : q[i] = "checks"
        BY <2>3
      <3>2. Len(p) + i \in 1 .. Len(p \o q) /\ (p \o q)[Len(p) + i] = "checks"
        BY <2>1, <3>1
      <3> QED BY <2>1, <3>2
    <2> QED BY <1>2, <2>2, <2>3
  <1>3. Good(<<"checks">>)
    BY <1>1
  <1> HIDE DEF Good
  <1>4. Good(<<"checks">> \o parent \o <<"self">>)
    <2>1. Good(<<"checks">> \o parent)
      BY <1>1, <1>2, <1>3
    <2>2. <<"checks">> \o parent \in Seq(S)
      BY <2>1 DEF Good
    <2> QED BY <1>1, <1>2, <2>1, <2>2
  <1>5. Good(<<"self">> \o parent \o <<"checks">>)
    <2>1. <<"self">> \o parent \in Seq(S)
      BY <1>1
    <2> QED BY <1>1, <1>2, <1>3, <2>1
  <1>6. Good(Plan(a))
    BY <1>3, <1>4, <1>5 DEF Plan, parent
  <1> QED BY <1>6 DEF Good, S

(* A log has no line of a call, or one.                                    *)
LEMMA LineType ==
    ASSUME NEW d \in {"allowed", "denied"}
    PROVE  /\ <<>> \in Seq({"allowed", "denied"}) /\ <<d>> \in Seq({"allowed", "denied"})
           /\ Append(<<>>, d) = <<d>> /\ <<>> \o <<d>> = <<d>> /\ <<d>> \o <<>> = <<d>>
  OBVIOUS

-----------------------------------------------------------------------------
Same(d) ==
    /\ call'[d] = call[d] /\ charged'[d] = charged[d]
    /\ file'[d] = file[d] /\ buffer'[d] = buffer[d]

(* A call that a step does not touch keeps its part of the invariant, as   *)
(* long as it does not lose the lock.                                      *)
LEMMA OthersKeep ==
    ASSUME NEW d \in Call, CallInv(d), Same(d), guard' = guard,
           call[d].pc = "flushing" => lock' = lock
    PROVE  CallInv(d)'
  <1>1. Charging(d)'
    BY DEF CallInv, Charging, Same, Reserved, Owed, NeedsChain
  <1>2. Deciding(d)'
    BY DEF CallInv, Deciding, Same, Refused
  <1>3. Recording(d)'
    BY DEF CallInv, Recording, Same, Silent, Buffered, Durable
  <1> QED BY <1>1, <1>2, <1>3 DEF CallInv

LEMMA InitInv == Init => GuardInv
  <1> SUFFICES ASSUME Init PROVE GuardInv
    OBVIOUS
  <1>1. TypeOK
    <2>1. ASSUME NEW c \in Call PROVE call[c] \in CallRecord
      <3>1. PICK a \in Asks :
               call[c] = [pc |-> "idle", ask |-> a, plan |-> <<>>, decision |-> "none",
                          reservation |-> "none", delivery |-> "none"]
        BY <2>1 DEF Init
      <3>2. <<>> \in Seq(Jti \cup {"checks"})
        OBVIOUS
      <3> QED BY <3>1, <3>2 DEF CallRecord
    <2>2. call \in [Call -> CallRecord]
      BY <2>1 DEF Init
    <2> QED BY <2>2 DEF Init, TypeOK, CallRecord
  <1>2. ASSUME NEW c \in Call PROVE CallInv(c)
    <2>1. /\ call[c].pc = "idle" /\ call[c].decision = "none" /\ call[c].reservation = "none"
          /\ call[c].delivery = "none"
      BY <1>2 DEF Init
    <2> QED BY <2>1, <1>2 DEF Init, CallInv, Charging, Deciding, Recording, Silent
  <1> QED BY <1>1, <1>2 DEF GuardInv

-----------------------------------------------------------------------------
others == <<guard, lock, buffer, file, charged>>

(* A step of one call that writes nothing else.                            *)
LEMMA OneCall ==
    ASSUME GuardInv, NEW c \in Call, NEW r \in CallRecord,
           call' = [call EXCEPT ![c] = r], UNCHANGED others, CallInv(c)'
    PROVE  GuardInv'
  <1>1. call' \in [Call -> CallRecord]
    BY DEF GuardInv, TypeOK, CallRecord
  <1>2. TypeOK'
    BY <1>1 DEF GuardInv, TypeOK, CallRecord, others
  <1>3. \A d \in Call \ {c} : CallInv(d)'
    <2> SUFFICES ASSUME NEW d \in Call \ {c} PROVE CallInv(d)'
      OBVIOUS
    <2>1. Same(d)
      BY DEF GuardInv, TypeOK, Same, others
    <2> QED BY <2>1, OthersKeep DEF GuardInv, others
  <1> QED BY <1>2, <1>3 DEF GuardInv

(* A call that is abandoned keeps what it has.                             *)
LEMMA AbandonedKeeps ==
    ASSUME GuardInv, NEW c \in Call, NEW pc \in {"raised", "cancelled"},
           call' = At(c, pc), UNCHANGED others
    PROVE  GuardInv'
  <1> DEFINE r == [call[c] EXCEPT !.pc = pc]
  <1>1. call[c] \in CallRecord /\ CallInv(c)
    BY DEF GuardInv, TypeOK, CallRecord
  <1>2. r \in CallRecord /\ call' = [call EXCEPT ![c] = r]
    BY <1>1 DEF At, CallRecord, Ended
  <1>3. /\ call'[c].pc = pc /\ call'[c].ask = call[c].ask /\ call'[c].plan = call[c].plan
        /\ call'[c].decision = call[c].decision /\ call'[c].delivery = call[c].delivery
        /\ call'[c].reservation = call[c].reservation
    BY <1>1, <1>2 DEF CallRecord, GuardInv, TypeOK
  <1>4. CallInv(c)'
    BY <1>1, <1>3 DEF CallInv, Charging, Deciding, Recording, Silent, Buffered, Durable, Owed, Reserved,
                      NeedsChain, others
  <1> HIDE DEF r
  <1> QED BY <1>2, <1>4, OneCall

(* A decision is made once, on an answer that justifies it.                *)
LEMMA DecidedKeeps ==
    ASSUME GuardInv, NEW c \in Call, NEW decision \in {"allowed", "denied"},
           call[c].pc \in {"idle", "verifying", "awaiting"},
           decision = "allowed" =>
               Owed(call[c].ask) \subseteq charged[c] /\ call[c].reservation # "sent",
           decision = "denied" => call[c].reservation \in {"none", "refused"},
           call' = Decided(c, decision), UNCHANGED others
    PROVE  GuardInv'
  <1> DEFINE pc == IF guard.sink = "none" THEN After(decision) ELSE "delivering"
             r == [call[c] EXCEPT !.decision = decision, !.pc = pc]
  <1>1. call[c] \in CallRecord /\ CallInv(c)
    BY DEF GuardInv, TypeOK, CallRecord
  <1>2. r \in CallRecord /\ call' = [call EXCEPT ![c] = r]
    BY <1>1 DEF Decided, CallRecord, Ended, After
  <1>3. /\ call'[c].pc = pc /\ call'[c].ask = call[c].ask
        /\ call'[c].decision = decision /\ call'[c].delivery = call[c].delivery
        /\ call'[c].reservation = call[c].reservation
    BY <1>1, <1>2 DEF CallRecord, GuardInv, TypeOK
  <1>4. /\ call[c].decision = "none" /\ call[c].delivery = "none" /\ Silent(c)
    BY <1>1 DEF CallInv, Deciding, Recording
  <1>5. Charging(c)'
    BY <1>1, <1>3 DEF CallInv, Charging, Owed, Reserved, NeedsChain, others
  <1>6. Deciding(c)'
    BY <1>3, <1>4 DEF Deciding, After
  <1>7. Recording(c)'
    BY <1>3, <1>4 DEF Recording, Silent, After, others
  <1> HIDE DEF r, pc
  <1> QED BY <1>2, <1>5, <1>6, <1>7, OneCall DEF CallInv

-----------------------------------------------------------------------------
LEMMA BeginInv ==
    ASSUME GuardInv, NEW c \in Call, Begin(c)
    PROVE  GuardInv'
  <1> DEFINE a == call[c].ask
             r == [call[c] EXCEPT !.pc = "verifying", !.plan = Plan(a)]
  <1>1. call[c] \in CallRecord /\ CallInv(c) /\ a \in Asks /\ UNCHANGED others /\ call[c].pc = "idle"
    BY DEF GuardInv, TypeOK, CallRecord, Begin, others
  <1>2. /\ call[c].decision = "none" /\ call[c].delivery = "none" /\ call[c].reservation = "none"
        /\ Silent(c)
    BY <1>1 DEF CallInv, Deciding, Recording
  <1>3. CASE ~a.token
    <2>1. call' = Decided(c, "denied")
      BY <1>3 DEF Begin
    <2> QED BY <1>1, <1>2, <2>1, DecidedKeeps
  <1>4. CASE a.token /\ ~a.binds
    <2>1. call' = At(c, "raised")
      BY <1>4 DEF Begin
    <2> QED BY <1>1, <2>1, AbandonedKeeps
  <1>5. CASE a.token /\ a.binds
    <2>1. call' = [call EXCEPT ![c].pc = "verifying", ![c].plan = Plan(a)]
      BY <1>5 DEF Begin
    <2>2. /\ Plan(a) \in Seq(Jti \cup {"checks"})
          /\ \E i \in 1 .. Len(Plan(a)) : Plan(a)[i] = "checks"
      BY <1>1, PlanChecks
    <2> HIDE DEF a
    <2>3. r \in CallRecord /\ call' = [call EXCEPT ![c] = r]
      BY <1>1, <2>1, <2>2 DEF CallRecord
    <2>4. /\ call'[c].pc = "verifying" /\ call'[c].ask = call[c].ask /\ call'[c].plan = Plan(a)
          /\ call'[c].decision = "none" /\ call'[c].delivery = "none" /\ call'[c].reservation = "none"
      BY <1>1, <1>2, <2>3 DEF CallRecord, GuardInv, TypeOK
    <2>5. Charging(c)'
      BY <1>1, <1>2, <2>4 DEF CallInv, Charging, others
    <2>6. Deciding(c)' /\ Recording(c)'
      BY <1>1, <1>2, <2>2, <2>4 DEF Deciding, Recording, Silent, others
    <2> HIDE DEF r
    <2> QED BY <1>1, <2>3, <2>5, <2>6, OneCall DEF CallInv
  <1> QED BY <1>3, <1>4, <1>5

(* The next step of the plan, once this one is passed.                     *)
LEMMA PassedKeeps ==
    ASSUME GuardInv, NEW c \in Call, Verifying(c, Jti \cup {"checks"}),
           Head(call[c].plan) # "checks" \/ ~Refused(call[c].ask),
           call' = [call EXCEPT ![c].plan = Tail(@)], UNCHANGED others
    PROVE  GuardInv'
  <1> DEFINE p == call[c].plan
             r == [call[c] EXCEPT !.plan = Tail(p)]
  <1>1. /\ call[c] \in CallRecord /\ CallInv(c) /\ call[c].pc = "verifying"
        /\ p \in Seq(Jti \cup {"checks"}) /\ p # <<>>
    BY DEF GuardInv, TypeOK, CallRecord, Verifying
  <1>2. r \in CallRecord /\ call' = [call EXCEPT ![c] = r]
    <2> DEFINE t == Tail(p)
    <2>1. t \in Seq(Jti \cup {"checks"})
      BY <1>1
    <2>2. call' = [call EXCEPT ![c].plan = t] /\ r = [call[c] EXCEPT !.plan = t]
      OBVIOUS
    <2> HIDE DEF t
    <2>3. r \in CallRecord
      BY <1>1, <2>1, <2>2 DEF CallRecord
    <2> QED BY <2>2, <2>3
  <1>3. /\ call'[c].pc = "verifying" /\ call'[c].ask = call[c].ask /\ call'[c].plan = Tail(p)
        /\ call'[c].decision = call[c].decision /\ call'[c].delivery = call[c].delivery
        /\ call'[c].reservation = call[c].reservation
    BY <1>1, <1>2 DEF CallRecord, GuardInv, TypeOK
  <1>4. \/ ~Refused(call[c].ask)
        \/ \E i \in 1 .. Len(Tail(p)) : Tail(p)[i] = "checks"
    <2> SUFFICES ASSUME Refused(call[c].ask) PROVE \E i \in 1 .. Len(Tail(p)) : Tail(p)[i] = "checks"
      OBVIOUS
    <2>1. PICK i \in 1 .. Len(p) : p[i] = "checks"
      BY <1>1 DEF CallInv, Deciding
    <2> HIDE DEF p
    <2>2. p[1] # "checks"
      BY <1>1 DEF p
    <2>3. /\ Len(Tail(p)) = Len(p) - 1 /\ Len(p) \in Nat
          /\ \A j \in 1 .. Len(p) - 1 : Tail(p)[j] = p[j + 1]
      BY <1>1
    <2>4. i - 1 \in 1 .. Len(Tail(p)) /\ Tail(p)[i - 1] = "checks"
      BY <2>1, <2>2, <2>3
    <2> QED BY <2>4
  <1>5. Charging(c)'
    BY <1>1, <1>3 DEF CallInv, Charging, Owed, Reserved, NeedsChain, others
  <1>6. Deciding(c)'
    BY <1>1, <1>3, <1>4 DEF CallInv, Deciding, Refused, others
  <1>7. Recording(c)'
    BY <1>1, <1>3 DEF CallInv, Recording, Silent, Buffered, Durable, others
  <1> HIDE DEF r
  <1> QED BY <1>2, <1>5, <1>6, <1>7, OneCall DEF CallInv

LEMMA CheckInv ==
    ASSUME GuardInv, NEW c \in Call, Check(c)
    PROVE  GuardInv'
  <1>1. CallInv(c) /\ UNCHANGED others
    BY DEF GuardInv, Check, others
  <1>2. CASE Verifying(c, {"checks"} \cup Jti) /\ call' = Decided(c, "denied")
    <2>1. call[c].pc = "verifying" /\ call[c].reservation = "none"
      BY <1>1, <1>2 DEF Verifying, CallInv, Deciding
    <2> QED BY <1>1, <1>2, <2>1, DecidedKeeps
  <1>3. CASE /\ Verifying(c, {"checks"}) /\ ~Refused(call[c].ask)
             /\ call' = [call EXCEPT ![c].plan = Tail(@)]
    <2>1. Verifying(c, Jti \cup {"checks"})
      BY <1>3 DEF Verifying
    <2> QED BY <1>1, <1>3, <2>1, PassedKeeps
  <1> QED BY <1>2, <1>3 DEF Check

LEMMA LookupInv ==
    ASSUME GuardInv, NEW c \in Call, Lookup(c)
    PROVE  GuardInv'
  <1>1. CallInv(c) /\ UNCHANGED others /\ Verifying(c, Jti)
    BY DEF GuardInv, Lookup, others
  <1>2. CASE call' = [call EXCEPT ![c].plan = Tail(@)]
    <2>1. Verifying(c, Jti \cup {"checks"}) /\ Head(call[c].plan) # "checks"
      BY <1>1 DEF Verifying, Jti
    <2> QED BY <1>1, <1>2, <2>1, PassedKeeps
  <1>3. CASE call' = Decided(c, "denied")
    <2>1. call[c].pc = "verifying" /\ call[c].reservation = "none"
      BY <1>1 DEF Verifying, CallInv, Deciding
    <2> QED BY <1>1, <1>3, <2>1, DecidedKeeps
  <1>4. CASE call' = At(c, "raised")
    BY <1>1, <1>4, AbandonedKeeps
  <1> QED BY <1>2, <1>3, <1>4 DEF Lookup

LEMMA ReserveInv ==
    ASSUME GuardInv, NEW c \in Call, Reserve(c)
    PROVE  GuardInv'
  <1> DEFINE a == call[c].ask
  <1>1. /\ call[c] \in CallRecord /\ CallInv(c) /\ a \in Asks /\ UNCHANGED others /\ TypeOK
        /\ call[c].pc = "verifying" /\ call[c].plan = <<>>
    BY DEF GuardInv, TypeOK, CallRecord, Reserve, others
  <1>2. /\ call[c].decision = "none" /\ call[c].delivery = "none" /\ call[c].reservation = "none"
        /\ Silent(c) /\ charged[c] = {} /\ ~Refused(a)
    BY <1>1 DEF CallInv, Charging, Deciding, Recording
  <1>3. CASE guard.tracker = "none"
    <2>1. call' = Decided(c, "allowed") /\ Owed(a) = {}
      BY <1>1, <1>2, <1>3, NothingOwed DEF Reserve
    <2> QED BY <1>1, <1>2, <2>1, DecidedKeeps
  <1>4. CASE guard.tracker # "none" /\ NeedsChain(a) /\ ~guard.chain
    <2>1. call' = Decided(c, "denied")
      BY <1>4 DEF Reserve
    <2> QED BY <1>1, <1>2, <2>1, DecidedKeeps
  <1>5. CASE guard.tracker # "none" /\ ~(NeedsChain(a) /\ ~guard.chain)
    <2>1. PICK pc \in {"raised", "awaiting"}, reservation \in {"sent", "none"} :
             /\ call' = [call EXCEPT ![c].pc = pc, ![c].reservation = reservation]
      BY <1>2, <1>5 DEF Reserve
    <2> DEFINE r == [call[c] EXCEPT !.pc = pc, !.reservation = reservation]
    <2>2. r \in CallRecord /\ call' = [call EXCEPT ![c] = r]
      BY <1>1, <2>1 DEF CallRecord, Ended
    <2>3. /\ call'[c].pc = pc /\ call'[c].reservation = reservation
          /\ call'[c].decision = "none" /\ call'[c].delivery = "none"
      BY <1>1, <1>2, <2>2 DEF CallRecord, GuardInv, TypeOK
    <2>4. CallInv(c)'
      BY <1>1, <1>2, <2>3 DEF CallInv, Charging, Deciding, Recording, Silent, others
    <2> HIDE DEF r
    <2> QED BY <1>1, <2>2, <2>4, OneCall
  <1> QED BY <1>3, <1>4, <1>5

LEMMA ReservingInv ==
    ASSUME GuardInv, NEW c \in Call, Reserving(c)
    PROVE  GuardInv'
  <1>1. /\ CallInv(c) /\ TypeOK /\ call[c].ask \in Asks /\ call[c].pc = "awaiting"
        /\ UNCHANGED others
    BY DEF GuardInv, TypeOK, Reserving, others
  <1>2. CASE call[c].reservation = "done" /\ call' = Decided(c, "allowed")
    <2>1. Owed(call[c].ask) \subseteq charged[c]
      BY <1>1, <1>2, OwedIsReserved DEF CallInv, Charging
    <2> QED BY <1>1, <1>2, <2>1, DecidedKeeps
  <1>3. CASE call[c].reservation = "refused" /\ call' = Decided(c, "denied")
    BY <1>1, <1>3, DecidedKeeps
  <1>4. CASE call' = At(c, "raised")
    BY <1>1, <1>4, AbandonedKeeps
  <1> QED BY <1>2, <1>3, <1>4 DEF Reserving

LEMMA CancelInv ==
    ASSUME GuardInv, NEW c \in Call, Cancel(c)
    PROVE  GuardInv'
  BY AbandonedKeeps DEF Cancel, others

(* The tool is entered, or the sink's callback is called: the call moves   *)
(* on and may have sent the event.                                         *)
LEMMA MovedKeeps ==
    ASSUME GuardInv, NEW c \in Call,
           NEW pc \in {"raised", "notifying", "returning", "denied", "executed"},
           NEW delivery \in {"none", "sent", "done", "failed"},
           call' = [call EXCEPT ![c].pc = pc, ![c].delivery = delivery], UNCHANGED others,
           call[c].decision # "none",
           pc \in {"returning", "executed"} =>
               call[c].decision = "allowed" /\ (guard.sink = "none" \/ Durable(c)),
           delivery # call[c].delivery => delivery = "sent" /\ Silent(c)
    PROVE  GuardInv'
  <1> DEFINE r == [call[c] EXCEPT !.pc = pc, !.delivery = delivery]
  <1>1. call[c] \in CallRecord /\ CallInv(c)
    BY DEF GuardInv, TypeOK, CallRecord
  <1>2. r \in CallRecord /\ call' = [call EXCEPT ![c] = r]
    BY <1>1 DEF CallRecord, Ended
  <1>3. /\ call'[c].pc = pc /\ call'[c].ask = call[c].ask /\ call'[c].delivery = delivery
        /\ call'[c].decision = call[c].decision /\ call'[c].reservation = call[c].reservation
    BY <1>1, <1>2 DEF CallRecord, GuardInv, TypeOK
  <1>4. Charging(c)'
    BY <1>1, <1>3 DEF CallInv, Charging, Owed, Reserved, NeedsChain, others
  <1>5. Deciding(c)'
    BY <1>1, <1>3 DEF CallInv, Deciding, others
  <1>6. Recording(c)'
    BY <1>1, <1>3 DEF CallInv, Recording, Silent, Buffered, Durable, others
  <1> HIDE DEF r
  <1> QED BY <1>2, <1>4, <1>5, <1>6, OneCall DEF CallInv

LEMMA NotifyInv ==
    ASSUME GuardInv, NEW c \in Call, Notify(c)
    PROVE  GuardInv'
  <1>1. call[c] \in CallRecord /\ CallInv(c) /\ UNCHANGED others /\ call[c].pc = "delivering"
    BY DEF GuardInv, TypeOK, CallRecord, Notify, others
  <1>2. call[c].decision # "none" /\ call[c].delivery = "none" /\ Silent(c)
    BY <1>1 DEF CallInv, Deciding, Recording
  <1>3. PICK pc \in {"raised", "notifying"}, delivery \in {"sent", "none"} :
           call' = [call EXCEPT ![c].pc = pc, ![c].delivery = delivery]
    BY <1>2 DEF Notify
  <1> QED BY <1>1, <1>2, <1>3, MovedKeeps

LEMMA NotifiedInv ==
    ASSUME GuardInv, NEW c \in Call, Notified(c)
    PROVE  GuardInv'
  <1>1. call[c] \in CallRecord /\ CallInv(c) /\ UNCHANGED others /\ call[c].pc = "notifying"
    BY DEF GuardInv, TypeOK, CallRecord, Notified, others
  <1>2. call[c].decision # "none"
    BY <1>1 DEF CallInv, Deciding
  <1>3. CASE call[c].delivery = "done" /\ call' = At(c, After(call[c].decision))
    <2> DEFINE pc == After(call[c].decision)
    <2>1. Durable(c)
      BY <1>1, <1>3 DEF CallInv, Recording
    <2>2. /\ pc \in {"returning", "denied"} /\ (pc = "returning" => call[c].decision = "allowed")
          /\ call' = [call EXCEPT ![c].pc = pc, ![c].delivery = call[c].delivery]
      BY <1>1, <1>3 DEF At, After, CallRecord, GuardInv, TypeOK
    <2> HIDE DEF pc
    <2> QED BY <1>1, <1>2, <1>3, <2>1, <2>2, MovedKeeps
  <1>4. CASE call' = At(c, "raised")
    BY <1>1, <1>4, AbandonedKeeps
  <1> QED BY <1>3, <1>4 DEF Notified

LEMMA ExecuteInv ==
    ASSUME GuardInv, NEW c \in Call, Execute(c)
    PROVE  GuardInv'
  <1>1. call[c] \in CallRecord /\ CallInv(c) /\ UNCHANGED others /\ call[c].pc = "returning"
    BY DEF GuardInv, TypeOK, CallRecord, Execute, others
  <1>2. call' = [call EXCEPT ![c].pc = "executed", ![c].delivery = call[c].delivery]
    BY <1>1 DEF Execute, At, CallRecord, GuardInv, TypeOK
  <1>3. call[c].decision = "allowed" /\ (guard.sink = "none" \/ Durable(c))
    BY <1>1 DEF CallInv, Deciding, Recording
  <1>4. call[c].delivery \in {"none", "sent", "done", "failed"}
    BY <1>1 DEF CallRecord
  <1> QED BY <1>1, <1>2, <1>3, <1>4, MovedKeeps

-----------------------------------------------------------------------------
(* The tracker and the callback answer, perhaps to nobody.                 *)
LEMMA TrackerAnswersInv ==
    ASSUME GuardInv, NEW c \in Call, TrackerAnswers(c)
    PROVE  GuardInv'
  <1>1. /\ call[c] \in CallRecord /\ CallInv(c) /\ TypeOK /\ call[c].reservation = "sent"
        /\ UNCHANGED <<guard, lock, buffer, file>>
    BY DEF GuardInv, TypeOK, CallRecord, TrackerAnswers
  <1>2. PICK answer \in {"done", "refused", "failed"}, charges \in BOOLEAN :
          /\ answer = "done" => charges
          /\ answer = "refused" => ~charges \/ guard.retries
          /\ call' = [call EXCEPT ![c].reservation = answer]
          /\ charged' = [charged EXCEPT ![c] = IF charges THEN Reserved(call[c].ask) ELSE @]
    BY DEF TrackerAnswers
  <1> DEFINE r == [call[c] EXCEPT !.reservation = answer]
  <1>3. r \in CallRecord /\ call' = [call EXCEPT ![c] = r]
    BY <1>1, <1>2 DEF CallRecord
  <1>4. /\ call'[c].pc = call[c].pc /\ call'[c].ask = call[c].ask /\ call'[c].plan = call[c].plan
        /\ call'[c].decision = call[c].decision /\ call'[c].delivery = call[c].delivery
        /\ call'[c].reservation = answer
    BY <1>1, <1>3 DEF CallRecord, TypeOK
  <1>5. call[c].decision = "none" /\ charged[c] = {} /\ call[c].pc \notin {"idle", "verifying"}
    BY <1>1 DEF CallInv, Charging, Deciding, CallRecord
  <1>6. TypeOK'
    <2>1. Reserved(call[c].ask) \in SUBSET Jti
      BY DEF Reserved, Jti
    <2>2. charged' \in [Call -> SUBSET Jti]
      BY <1>1, <1>2, <2>1 DEF TypeOK
    <2>3. call' \in [Call -> CallRecord]
      BY <1>1, <1>3 DEF TypeOK, CallRecord
    <2> QED BY <1>1, <2>2, <2>3 DEF TypeOK, CallRecord
  <1>7. CallInv(c)'
    <2>1. charged'[c] = IF charges THEN Reserved(call[c].ask) ELSE {}
      BY <1>1, <1>2, <1>5 DEF TypeOK
    <2>2. Charging(c)'
      BY <1>1, <1>2, <1>4, <1>5, <2>1 DEF Charging, Reserved, NeedsChain
    <2>3. Deciding(c)'
      BY <1>1, <1>4, <1>5 DEF CallInv, Deciding
    <2>4. Recording(c)'
      BY <1>1, <1>4, <1>5 DEF CallInv, Recording, Silent, Buffered, Durable
    <2> QED BY <2>2, <2>3, <2>4 DEF CallInv
  <1> HIDE DEF r
  <1>8. ASSUME NEW d \in Call \ {c} PROVE CallInv(d)'
    <2>1. Same(d)
      BY <1>1, <1>2, <1>3, <1>8 DEF TypeOK, Same
    <2> QED BY <1>1, <1>8, <2>1, OthersKeep DEF GuardInv
  <1> QED BY <1>6, <1>7, <1>8 DEF GuardInv

LEMMA CallbackAnswersInv ==
    ASSUME GuardInv, NEW c \in Call, CallbackAnswers(c)
    PROVE  GuardInv'
  <1>1. /\ call[c] \in CallRecord /\ CallInv(c) /\ TypeOK /\ call[c].delivery = "sent"
        /\ UNCHANGED <<guard, lock, buffer, charged>>
    BY DEF GuardInv, TypeOK, CallRecord, CallbackAnswers
  <1>2. PICK answer \in {"done", "failed"}, records \in BOOLEAN :
          /\ answer = "done" => records
          /\ call' = [call EXCEPT ![c].delivery = answer]
          /\ file' = [file EXCEPT ![c] = IF records THEN Append(@, call[c].decision) ELSE @]
    BY DEF CallbackAnswers
  <1> DEFINE r == [call[c] EXCEPT !.delivery = answer]
             decision == call[c].decision
  <1>3. r \in CallRecord /\ call' = [call EXCEPT ![c] = r]
    BY <1>1, <1>2 DEF CallRecord
  <1>4. /\ call'[c].pc = call[c].pc /\ call'[c].ask = call[c].ask /\ call'[c].plan = call[c].plan
        /\ call'[c].decision = decision /\ call'[c].delivery = answer
        /\ call'[c].reservation = call[c].reservation
    BY <1>1, <1>3 DEF CallRecord, TypeOK
  <1>5. /\ decision \in {"allowed", "denied"} /\ Silent(c)
        /\ call[c].pc \notin {"idle", "verifying", "awaiting", "delivering", "flushing"}
        /\ call[c].pc \in {"returning", "executed"} => guard.sink = "none"
    <2>1. Silent(c) /\ decision # "none"
      BY <1>1 DEF CallInv, Recording
    <2>2. ~Durable(c)
      BY <2>1 DEF Silent, Durable
    <2> QED BY <1>1, <2>1, <2>2 DEF CallInv, Deciding, Recording, CallRecord
  <1> HIDE DEF decision
  <1>6. file'[c] = IF records THEN <<decision>> ELSE <<>>
    <2>1. file[c] = <<>> /\ Append(<<>>, decision) = <<decision>>
      BY <1>5 DEF Silent
    <2> QED BY <1>1, <1>2, <2>1 DEF TypeOK, decision
  <1>7. TypeOK'
    <2>1. file'[c] \in Seq({"allowed", "denied"})
      BY <1>5, <1>6, LineType
    <2>2. file' \in [Call -> Seq({"allowed", "denied"})]
      BY <1>1, <1>2, <2>1 DEF TypeOK
    <2>3. call' \in [Call -> CallRecord]
      BY <1>1, <1>3 DEF TypeOK, CallRecord
    <2> QED BY <1>1, <2>2, <2>3 DEF TypeOK, CallRecord
  <1>8. CallInv(c)'
    <2>1. Charging(c)'
      BY <1>1, <1>4 DEF CallInv, Charging, Owed, Reserved, NeedsChain, decision
    <2>2. Deciding(c)'
      BY <1>1, <1>4, <1>5 DEF CallInv, Deciding, decision
    <2>3. Recording(c)'
      BY <1>1, <1>2, <1>4, <1>5, <1>6 DEF Recording, Silent, Durable
    <2> QED BY <2>1, <2>2, <2>3 DEF CallInv
  <1> HIDE DEF r
  <1>9. ASSUME NEW d \in Call \ {c} PROVE CallInv(d)'
    <2>1. Same(d)
      BY <1>1, <1>2, <1>3, <1>9 DEF TypeOK, Same
    <2> QED BY <1>1, <1>9, <2>1, OthersKeep DEF GuardInv
  <1> QED BY <1>7, <1>8, <1>9 DEF GuardInv

-----------------------------------------------------------------------------
(* The sink: while one call holds the lock no other is between its write   *)
(* and its flush.                                                          *)
LEMMA WriteInv ==
    ASSUME GuardInv, NEW c \in Call, Write(c)
    PROVE  GuardInv'
  <1> DEFINE decision == call[c].decision
  <1>1. /\ call[c] \in CallRecord /\ CallInv(c) /\ TypeOK /\ call[c].pc = "delivering"
        /\ lock = None /\ UNCHANGED <<guard, file, charged>>
    BY DEF GuardInv, TypeOK, CallRecord, Write
  <1>2. CASE call' = At(c, "raised") /\ UNCHANGED <<lock, buffer>>
    BY <1>1, <1>2, AbandonedKeeps DEF others
  <1>3. ASSUME NEW pc \in {"flushing", "raised"}, call' = At(c, pc), lock' \in {lock, c},
               pc = "flushing" => lock' = c,
               buffer' = [buffer EXCEPT ![c] = Append(@, call[c].decision)]
        PROVE  GuardInv'
    <2> DEFINE r == [call[c] EXCEPT !.pc = pc]
    <2>1. r \in CallRecord /\ call' = [call EXCEPT ![c] = r]
      BY <1>1, <1>3 DEF At, CallRecord, Ended
    <2>2. /\ call'[c].pc = pc /\ call'[c].ask = call[c].ask
          /\ call'[c].decision = decision /\ call'[c].delivery = call[c].delivery
          /\ call'[c].reservation = call[c].reservation
      BY <1>1, <2>1 DEF CallRecord, TypeOK
    <2>3. decision \in {"allowed", "denied"} /\ Silent(c) /\ call[c].delivery = "none"
      BY <1>1 DEF CallInv, Deciding, Recording, CallRecord
    <2> HIDE DEF decision
    <2>4. buffer'[c] = <<decision>>
      <3>1. buffer[c] = <<>> /\ buffer'[c] = Append(buffer[c], decision)
        BY <1>1, <1>3, <2>3 DEF TypeOK, Silent, decision
      <3> QED BY <2>3, <3>1, LineType
    <2>5. TypeOK'
      <3>1. buffer' \in [Call -> Seq({"allowed", "denied"})]
        BY <1>1, <1>3, <2>3, <2>4, LineType DEF TypeOK
      <3>2. call' \in [Call -> CallRecord]
        BY <1>1, <2>1 DEF TypeOK, CallRecord
      <3> QED BY <1>1, <1>3, <3>1, <3>2 DEF TypeOK, CallRecord
    <2>6. Charging(c)'
      BY <1>1, <2>2 DEF CallInv, Charging, Owed, Reserved, NeedsChain, decision
    <2>7. Deciding(c)'
      BY <1>3, <2>2, <2>3 DEF Deciding
    <2>8. Recording(c)'
      BY <1>1, <2>2, <2>3, <2>4 DEF Recording, Silent, Buffered
    <2> HIDE DEF r
    <2>9. ASSUME NEW d \in Call \ {c} PROVE CallInv(d)'
      <3>1. Same(d)
        BY <1>1, <1>3, <2>1, <2>9 DEF TypeOK, Same
      <3>2. call[d].pc # "flushing"
        BY <1>1, GuardedCallAssumption DEF GuardInv, CallInv, Deciding
      <3> QED BY <1>1, <2>9, <3>1, <3>2, OthersKeep DEF GuardInv
    <2> QED BY <2>5, <2>6, <2>7, <2>8, <2>9 DEF GuardInv, CallInv
  <1>4. CASE /\ lock' = c /\ call' = At(c, "flushing")
             /\ buffer' = [buffer EXCEPT ![c] = Append(@, call[c].decision)]
    BY <1>3, <1>4
  <1>5. CASE /\ UNCHANGED lock /\ call' = At(c, "raised")
             /\ buffer' = [buffer EXCEPT ![c] = Append(@, call[c].decision)]
    BY <1>3, <1>5
  <1> QED BY <1>2, <1>4, <1>5 DEF Write

(* A flush of c that moves the lines of `out` to the file and leaves those *)
(* of `kept` in the buffer; what is in neither is lost.                    *)
Flushed(c, pc, out, kept) ==
    /\ call[c].pc = "flushing"
    /\ pc \in {"returning", "denied", "raised"} /\ call' = At(c, pc) /\ lock' = None
    /\ pc = "returning" => call[c].decision = "allowed" /\ c \in out
    /\ out \in SUBSET Call /\ kept \in SUBSET (Call \ out)
    /\ file' = [d \in Call |-> IF d \in out THEN file[d] \o buffer[d] ELSE file[d]]
    /\ buffer' = [d \in Call |-> IF d \in kept THEN buffer[d] ELSE <<>>]
    /\ UNCHANGED <<guard, charged>>

LEMMA FlushedKeeps ==
    ASSUME GuardInv, NEW c \in Call, NEW pc, NEW out, NEW kept, Flushed(c, pc, out, kept)
    PROVE  GuardInv'
  <1> USE DEF Flushed
  <1>1. TypeOK /\ \A d \in Call : call[d] \in CallRecord /\ CallInv(d)
    BY DEF GuardInv, TypeOK, CallRecord
  <1>2. ASSUME NEW d \in Call
        PROVE  /\ call'[d] \in CallRecord /\ call'[d].ask = call[d].ask
               /\ call'[d].plan = call[d].plan
               /\ call'[d].decision = call[d].decision /\ call'[d].delivery = call[d].delivery
               /\ call'[d].reservation = call[d].reservation
               /\ call'[d].pc = IF d = c THEN pc ELSE call[d].pc
    <2>1. CASE d = c
      BY <1>1, <2>1 DEF At, CallRecord, Ended, TypeOK
    <2>2. CASE d # c
      BY <1>1, <1>2, <2>2 DEF At, TypeOK
    <2> QED BY <2>1, <2>2
  <1>3. ASSUME NEW d \in Call
        PROVE  /\ Silent(d) => Silent(d)'
               /\ Durable(d) => Durable(d)'
               /\ Buffered(d) => \/ d \in out /\ Durable(d)'
                                 \/ d \notin out /\ (Silent(d)' \/ Buffered(d)')
    <2>1. /\ file'[d] = IF d \in out THEN file[d] \o buffer[d] ELSE file[d]
          /\ buffer'[d] = IF d \in kept THEN buffer[d] ELSE <<>>
          /\ d \in kept => d \notin out
      BY <1>3
    <2>2. <<>> \o <<>> = <<>>
      OBVIOUS
    <2>3. Silent(d) => Silent(d)'
      BY <2>1, <2>2 DEF Silent
    <2>4. CASE call[d].decision \in {"allowed", "denied"}
      BY <1>2, <1>3, <2>1, <2>3, <2>4, LineType DEF Silent, Durable, Buffered
    <2>5. CASE call[d].decision = "none"
      <3>1. Silent(d) /\ ~Durable(d) /\ ~Buffered(d)
        BY <1>1, <1>3, <2>5 DEF CallInv, Recording, Silent, Durable, Buffered
      <3> QED BY <2>3, <3>1
    <2>6. call[d].decision \in {"none", "allowed", "denied"}
      BY <1>1, <1>3 DEF CallRecord
    <2> QED BY <2>4, <2>5, <2>6
  <1>4. TypeOK'
    <2>1. ASSUME NEW d \in Call
          PROVE  file'[d] \in Seq({"allowed", "denied"}) /\ buffer'[d] \in Seq({"allowed", "denied"})
      <3>1. file[d] \in Seq({"allowed", "denied"}) /\ buffer[d] \in Seq({"allowed", "denied"})
        BY <1>1, <2>1 DEF TypeOK
      <3>2. file[d] \o buffer[d] \in Seq({"allowed", "denied"}) /\ <<>> \in Seq({"allowed", "denied"})
        BY <3>1
      <3> QED BY <2>1, <3>1, <3>2
    <2>2. /\ file' \in [Call -> Seq({"allowed", "denied"})]
          /\ buffer' \in [Call -> Seq({"allowed", "denied"})]
      BY <2>1
    <2>3. call' \in [Call -> CallRecord]
      BY <1>1, <1>2 DEF TypeOK, At
    <2> QED BY <1>1, <2>2, <2>3 DEF TypeOK, CallRecord
  <1>5. ASSUME NEW d \in Call PROVE CallInv(d)'
    <2>1. d = c \/ call[d].pc # "flushing"
      BY <1>1, <1>5 DEF CallInv, Deciding
    <2>2. Charging(d)'
      BY <1>1, <1>2, <1>5 DEF CallInv, Charging, Owed, Reserved, NeedsChain
    <2>3. Deciding(d)'
      BY <1>1, <1>2, <1>5, <2>1 DEF CallInv, Deciding, Refused
    <2>4. Silent(d)' \/ Buffered(d)' \/ Durable(d)'
      BY <1>1, <1>3, <1>5 DEF CallInv, Recording
    <2>5. Recording(d)'
      <3>1. CASE d # c
        BY <1>1, <1>2, <1>3, <1>5, <2>1, <2>4, <3>1 DEF CallInv, Recording
      <3>2. CASE d = c
        <4>1. /\ Buffered(d) /\ call[d].decision # "none" /\ call[d].delivery = "none"
          BY <1>1, <3>2 DEF CallInv, Recording, Deciding
        <4>2. pc = "returning" => Durable(d)'
          BY <1>3, <3>2, <4>1
        <4> QED BY <1>2, <1>5, <2>4, <3>2, <4>1, <4>2 DEF Recording
      <3> QED BY <3>1, <3>2
    <2> QED BY <2>2, <2>3, <2>5 DEF CallInv
  <1> QED BY <1>4, <1>5 DEF GuardInv

LEMMA FlushInv ==
    ASSUME GuardInv, NEW c \in Call, Flush(c)
    PROVE  GuardInv'
  <1>1. Flushed(c, After(call[c].decision), Call, {})
    BY DEF Flush, Flushed, After
  <1> QED BY <1>1, FlushedKeeps

LEMMA FlushFailsInv ==
    ASSUME GuardInv, NEW c \in Call, FlushFails(c)
    PROVE  GuardInv'
  <1>1. PICK out \in SUBSET {d \in Call : buffer[d] # <<>>}, keeps \in BOOLEAN :
          /\ file' = [d \in Call |-> IF d \in out THEN file[d] \o buffer[d] ELSE file[d]]
          /\ buffer' = [d \in Call |-> IF d \in out \/ ~keeps THEN <<>> ELSE buffer[d]]
    BY DEF FlushFails
  <1>2. CASE keeps
    <2>1. Flushed(c, "raised", out, Call \ out)
      BY <1>1, <1>2 DEF FlushFails, Flushed
    <2> QED BY <2>1, FlushedKeeps
  <1>3. CASE ~keeps
    <2>1. Flushed(c, "raised", out, {})
      BY <1>1, <1>3 DEF FlushFails, Flushed
    <2> QED BY <2>1, FlushedKeeps
  <1> QED BY <1>2, <1>3

-----------------------------------------------------------------------------
LEMMA NextInv ==
    ASSUME GuardInv, [Next]_vars
    PROVE  GuardInv'
  <1>1. CASE UNCHANGED vars
    <2>1. TypeOK'
      BY <1>1 DEF GuardInv, TypeOK, vars
    <2>2. ASSUME NEW d \in Call PROVE CallInv(d)'
      <3>1. Same(d) /\ guard' = guard /\ lock' = lock
        BY <1>1 DEF Same, vars
      <3> QED BY <2>2, <3>1, OthersKeep DEF GuardInv
    <2> QED BY <2>1, <2>2 DEF GuardInv
  <1>2. ASSUME NEW c \in Call, Begin(c) \/ Proceed(c) \/ Answers(c) \/ Cancel(c)
        PROVE  GuardInv'
    BY <1>2, BeginInv, CheckInv, LookupInv, ReserveInv, ReservingInv, NotifyInv, NotifiedInv, WriteInv,
       FlushInv, FlushFailsInv, ExecuteInv, TrackerAnswersInv, CallbackAnswersInv, CancelInv
    DEF Proceed, Answers
  <1> QED BY <1>1, <1>2 DEF Next

(* The invariant holds of every guarded call, however the tracker, the     *)
(* callback and the stream behave and whichever tasks are cancelled.       *)
THEOREM GuardInvariant == Spec => []GuardInv
  <1>1. Init => GuardInv
    BY InitInv
  <1>2. GuardInv /\ [Next]_vars => GuardInv'
    BY NextInv
  <1> QED BY <1>1, <1>2, PTL DEF Spec

(* The state of the boundary keeps its types.                              *)
THEOREM GuardTypes == Spec => []TypeOK
  <1>1. GuardInv => TypeOK
    BY DEF GuardInv
  <1> QED BY <1>1, GuardInvariant, PTL

(* A tool that runs behind guard or async_guard has been charged for every *)
(* limit of its token's chain.                                             *)
THEOREM LimitsChargedCorrect == Spec => []LimitsCharged
  <1>1. GuardInv => LimitsCharged
    BY DEF GuardInv, CallInv, Charging, Deciding, LimitsCharged
  <1> QED BY <1>1, GuardInvariant, PTL

(* The decision log is true, lines that a failed flush left behind         *)
(* included.                                                               *)
THEOREM RecordTruthfulCorrect == Spec => []RecordTruthful
  <1>1. ASSUME GuardInv PROVE RecordTruthful
    <2> SUFFICES ASSUME NEW c \in Call
                 PROVE  LET lines == file[c] \o buffer[c] IN
                        /\ Len(lines) <= 1
                        /\ lines = <<"allowed">> => Owed(call[c].ask) \subseteq charged[c]
                        /\ lines = <<"denied">> =>
                              /\ charged[c] # {} =>
                                    guard.retries /\ call[c].reservation = "refused"
                              /\ call[c].pc \notin {"returning", "executed"}
                        /\ call[c].pc \in {"returning", "executed"} /\ guard.sink # "none" =>
                              file[c] = <<"allowed">>
      BY DEF RecordTruthful
    <2> DEFINE lines == file[c] \o buffer[c]
               decision == call[c].decision
    <2>1. CallInv(c) /\ decision \in {"none", "allowed", "denied"}
      BY <1>1 DEF GuardInv, TypeOK
    <2>2. \/ lines = <<>>
          \/ lines = <<decision>> /\ decision \in {"allowed", "denied"}
      <3>1. CASE Silent(c)
        BY <3>1 DEF Silent
      <3>2. CASE ~Silent(c)
        <4>1. decision \in {"allowed", "denied"} /\ (Buffered(c) \/ Durable(c))
          BY <2>1, <3>2 DEF CallInv, Recording
        <4> QED BY <4>1, LineType DEF Buffered, Durable
      <3> QED BY <3>1, <3>2
    <2> HIDE DEF lines
    <2>3. \A d \in {"allowed", "denied"} : Len(<<d>>) = 1 /\ <<d>>[1] = d /\ <<d>> # <<>>
      OBVIOUS
    <2>4. Len(lines) <= 1
      <3>1. Len(<<>>) = 0
        OBVIOUS
      <3> QED BY <2>2, <2>3, <3>1
    <2>5. /\ lines = <<"allowed">> => decision = "allowed"
          /\ lines = <<"denied">> => decision = "denied"
      BY <2>2, <2>3
    <2>6. /\ decision = "allowed" => Owed(call[c].ask) \subseteq charged[c]
          /\ decision = "denied" =>
                /\ charged[c] # {} => guard.retries /\ call[c].reservation = "refused"
                /\ call[c].pc \notin {"returning", "executed"}
      BY <2>1 DEF CallInv, Charging, Deciding
    <2>7. call[c].pc \in {"returning", "executed"} /\ guard.sink # "none" => file[c] = <<"allowed">>
      BY <2>1 DEF CallInv, Deciding, Recording, Durable
    <2> QED BY <2>4, <2>5, <2>6, <2>7 DEF lines
  <1> QED BY <1>1, GuardInvariant, PTL

-----------------------------------------------------------------------------
(* The refinement of AuthorizedCall.                                       *)
Terms == [c \in Call |-> [owed |-> Owed(call[c].ask), audited |-> guard.sink # "none",
                          retried |-> guard.retries]]

Stage == [c \in Call |-> CASE call[c].pc = "executed" -> "ran"
                           [] call[c].pc \in {"denied", "raised", "cancelled"} -> "closed"
                           [] OTHER -> "open"]

LEMMA InitMaps == Init => Promise!Init
  <1> SUFFICES ASSUME Init PROVE Promise!Init
    OBVIOUS
  <1>1. ASSUME NEW c \in Call PROVE call[c].pc = "idle"
    BY <1>1 DEF Init
  <1>2. Terms \in [Call -> [owed : SUBSET Jti, audited : BOOLEAN, retried : BOOLEAN]]
    <2>1. guard \in GuardType
      BY GuardedCallAssumption DEF Init
    <2>2. guard.retries \in BOOLEAN
      BY <2>1 DEF GuardType
    <2>3. ASSUME NEW c \in Call PROVE Owed(call[c].ask) \in SUBSET Jti
      BY DEF Owed
    <2> QED BY <2>2, <2>3 DEF Terms
  <1>3. Stage = [c \in Call |-> "open"]
    BY <1>1 DEF Stage
  <1> QED BY <1>2, <1>3 DEF Promise!Init, Terms, Stage, Init

(* A step that tells the decisions of `news` and may end the call c.       *)
Tells(c, news) ==
    /\ guard' = guard /\ charged' = charged
    /\ \A d \in Call : call'[d].ask = call[d].ask
    /\ \A d \in Call \ {c} : call'[d].pc = call[d].pc
    /\ call'[c].pc = call[c].pc \/ (call[c].pc \notin Ended /\ call'[c].pc # "executed")
    /\ \A d \in news : d \in Call /\ file[d] = <<>> /\ call[d].decision # "none"
    /\ file' = [d \in Call |-> IF d \in news THEN <<call[d].decision>> ELSE file[d]]

LEMMA TellsMaps ==
    ASSUME GuardInv, NEW c \in Call, NEW news, Tells(c, news)
    PROVE  Promise!Next
  <1> USE DEF Tells
  <1>1. ASSUME NEW d \in news
        PROVE  d \in Call /\ file[d] = <<>> /\ call[d].decision \in {"allowed", "denied"}
    BY <1>1 DEF GuardInv, TypeOK
  <1>2. PICK told \in Promise!News : told = [d \in news |-> call[d].decision]
    <2>1. news \in SUBSET Call /\ [d \in news |-> call[d].decision] \in [news -> {"allowed", "denied"}]
      BY <1>1
    <2> QED BY <2>1 DEF Promise!News
  <1>3. Terms' = Terms
    BY DEF Terms, Owed
  <1>4. \A d \in news : Terms[d].owed = Owed(call[d].ask) /\ Terms[d].retried = guard.retries
    BY <1>1 DEF Terms
  <1>5. file' = [d \in Call |-> IF d \in DOMAIN told THEN <<told[d]>> ELSE file[d]]
    BY <1>2
  <1>6. \A d \in DOMAIN told : file[d] = <<>> /\ Promise!Truthful(d, told[d])
    <2>1. ASSUME NEW d \in news
          PROVE  /\ told[d] = "allowed" => Terms[d].owed \subseteq charged[d]
                 /\ told[d] = "denied" => charged[d] = {} \/ Terms[d].retried
                 /\ told[d] \in {"allowed", "denied"}
      BY <1>1, <1>2, <1>4, <2>1 DEF GuardInv, CallInv, Charging
    <2> QED BY <1>1, <1>2, <2>1 DEF Promise!Truthful, Terms
  <1>7. CASE Stage' = Stage
    <2>1. Promise!Tell(told)
      BY <1>3, <1>5, <1>6, <1>7 DEF Promise!Tell, Terms, Stage
    <2> QED BY <2>1 DEF Promise!Next
  <1>8. CASE Stage[c] = "open" /\ Stage' = [Stage EXCEPT ![c] = "closed"]
    <2>1. Promise!Close(c, told)
      BY <1>3, <1>5, <1>6, <1>8 DEF Promise!Close, Terms, Stage
    <2> QED BY <2>1 DEF Promise!Next
  <1>9. Stage' = Stage \/ (Stage[c] = "open" /\ Stage' = [Stage EXCEPT ![c] = "closed"])
    <2>1. \A d \in Call \ {c} : Stage'[d] = Stage[d]
      BY DEF Stage
    <2>2. Stage'[c] = Stage[c] \/ (Stage[c] = "open" /\ Stage'[c] = "closed")
      BY DEF Stage, Ended
    <2> QED BY <2>1, <2>2 DEF Stage
  <1> QED BY <1>7, <1>8, <1>9

(* A step that is nobody else's business.                                  *)
LEMMA QuietMaps ==
    ASSUME GuardInv, NEW c \in Call, UNCHANGED <<guard, file, charged>>,
           call' = [call EXCEPT ![c] = call'[c]], call'[c].ask = call[c].ask,
           call'[c].pc = call[c].pc \/ (call[c].pc \notin Ended /\ call'[c].pc # "executed")
    PROVE  Promise!Next
  <1>1. \A d \in Call \ {c} : call'[d] = call[d]
    BY DEF GuardInv, TypeOK
  <1>2. file' = [d \in Call |-> IF d \in {} THEN <<call[d].decision>> ELSE file[d]]
    BY DEF GuardInv, TypeOK
  <1>3. Tells(c, {})
    BY <1>1, <1>2 DEF Tells
  <1> QED BY <1>3, TellsMaps

(* A flush tells the decisions of every call whose line it writes.         *)
LEMMA FlushMaps ==
    ASSUME GuardInv, NEW c \in Call, Flush(c) \/ FlushFails(c)
    PROVE  Promise!Next
  <1>1. PICK out \in SUBSET Call, pc \in {"returning", "denied", "raised"} :
          /\ call' = At(c, pc) /\ call[c].pc = "flushing" /\ UNCHANGED <<guard, charged>>
          /\ file' = [d \in Call |-> IF d \in out THEN file[d] \o buffer[d] ELSE file[d]]
    <2>1. CASE Flush(c)
      <3>1. After(call[c].decision) \in {"returning", "denied", "raised"}
        BY DEF After
      <3>2. file' = [d \in Call |-> IF d \in Call THEN file[d] \o buffer[d] ELSE file[d]]
        BY <2>1 DEF Flush
      <3> QED BY <2>1, <3>1, <3>2 DEF Flush
    <2>2. CASE FlushFails(c)
      BY <2>2 DEF FlushFails
    <2> QED BY <2>1, <2>2
  <1> DEFINE news == {d \in out : Buffered(d) /\ call[d].decision # "none"}
  <1>2. ASSUME NEW d \in Call
        PROVE  file'[d] = IF d \in news THEN <<call[d].decision>> ELSE file[d]
    <2>1. /\ CallInv(d) /\ call[d].decision \in {"none", "allowed", "denied"}
          /\ file'[d] = IF d \in out THEN file[d] \o buffer[d] ELSE file[d]
      BY <1>1, <1>2 DEF GuardInv, TypeOK
    <2>2. <<>> \o <<>> = <<>>
      OBVIOUS
    <2>3. CASE Silent(d)
      <3>1. d \notin news /\ file[d] = <<>> /\ buffer[d] = <<>>
        <4>1. <<call[d].decision>> # <<>>
          OBVIOUS
        <4> QED BY <2>3, <4>1 DEF Silent, Buffered
      <3> QED BY <2>1, <2>2, <3>1
    <2>4. CASE ~Silent(d)
      <3>1. call[d].decision \in {"allowed", "denied"} /\ (Buffered(d) \/ Durable(d))
        BY <2>1, <2>4 DEF CallInv, Recording
      <3>2. CASE Buffered(d)
        BY <2>1, <3>1, <3>2, LineType DEF Buffered
      <3>3. CASE Durable(d) /\ ~Buffered(d)
        BY <2>1, <3>1, <3>3, LineType DEF Durable
      <3> QED BY <3>1, <3>2, <3>3
    <2> QED BY <2>3, <2>4
  <1>3. file' = [d \in Call |-> IF d \in news THEN <<call[d].decision>> ELSE file[d]]
    BY <1>1, <1>2
  <1>4. \A d \in news : d \in Call /\ file[d] = <<>> /\ call[d].decision # "none"
    BY DEF Buffered
  <1>5. /\ \A d \in Call : call'[d].ask = call[d].ask
        /\ \A d \in Call \ {c} : call'[d].pc = call[d].pc
        /\ call[c].pc \notin Ended /\ call'[c].pc # "executed"
    BY <1>1 DEF GuardInv, TypeOK, At, Ended
  <1> HIDE DEF news
  <1>6. Tells(c, news)
    BY <1>1, <1>3, <1>4, <1>5 DEF Tells
  <1> QED BY <1>6, TellsMaps

(* The tool is entered only when it is charged for and on record.          *)
LEMMA ExecuteMaps ==
    ASSUME GuardInv, NEW c \in Call, Execute(c)
    PROVE  Promise!Next
  <1>1. /\ call[c].pc = "returning" /\ call' = At(c, "executed")
        /\ UNCHANGED <<guard, charged, file>> /\ CallInv(c)
    BY DEF Execute, GuardInv
  <1>2. /\ \A d \in Call : call'[d].ask = call[d].ask
        /\ \A d \in Call : call'[d].pc = IF d = c THEN "executed" ELSE call[d].pc
    BY <1>1 DEF GuardInv, TypeOK, At
  <1>3. Terms' = Terms
    BY <1>1, <1>2 DEF Terms, Owed
  <1>4. Stage[c] = "open" /\ Stage' = [Stage EXCEPT ![c] = "ran"]
    BY <1>1, <1>2 DEF Stage
  <1>5. /\ Terms[c].owed \subseteq charged[c]
        /\ Terms[c].audited => file[c] = <<"allowed">>
    BY <1>1 DEF Terms, CallInv, Charging, Deciding, Recording, Durable
  <1>6. Promise!Run(c)
    BY <1>1, <1>3, <1>4, <1>5 DEF Promise!Run, Terms, Stage
  <1> QED BY <1>6 DEF Promise!Next

LEMMA ProceedMaps ==
    ASSUME GuardInv, NEW c \in Call, Begin(c) \/ Proceed(c) \/ Cancel(c)
    PROVE  Promise!Next
  <1> USE DEF CallRecord
  <1>1. TypeOK /\ call \in [Call -> CallRecord] /\ call[c] \in CallRecord /\ CallInv(c)
    BY DEF GuardInv, TypeOK
  <1>2. ASSUME NEW pc, call' = At(c, pc)
        PROVE  /\ call' = [call EXCEPT ![c] = call'[c]] /\ call'[c].ask = call[c].ask
               /\ call'[c].pc = pc
    BY <1>1, <1>2 DEF At
  <1>3. ASSUME NEW decision, call' = Decided(c, decision)
        PROVE  /\ call' = [call EXCEPT ![c] = call'[c]] /\ call'[c].ask = call[c].ask
               /\ call'[c].pc # "executed"
    BY <1>1, <1>3 DEF Decided, After
  <1>4. CASE Begin(c)
    <2>1. call' = [call EXCEPT ![c] = call'[c]] /\ call'[c].ask = call[c].ask /\ call'[c].pc # "executed"
      <3>1. CASE ~call[c].ask.token
        BY <1>3, <1>4, <3>1 DEF Begin
      <3>2. CASE call[c].ask.token /\ ~call[c].ask.binds
        BY <1>2, <1>4, <3>2 DEF Begin
      <3>3. CASE call[c].ask.token /\ call[c].ask.binds
        BY <1>1, <1>4, <3>3 DEF Begin
      <3> QED BY <3>1, <3>2, <3>3
    <2> QED BY <1>4, <2>1, QuietMaps DEF Begin, Ended
  <1>5. CASE Check(c)
    <2>1. call' = [call EXCEPT ![c] = call'[c]] /\ call'[c].ask = call[c].ask /\ call'[c].pc # "executed"
      BY <1>1, <1>3, <1>5 DEF Check, Verifying
    <2> QED BY <1>5, <2>1, QuietMaps DEF Check, Verifying, Ended
  <1>6. CASE Lookup(c)
    <2>1. call' = [call EXCEPT ![c] = call'[c]] /\ call'[c].ask = call[c].ask /\ call'[c].pc # "executed"
      <3>1. CASE call' = [call EXCEPT ![c].plan = Tail(@)]
        BY <1>1, <1>6, <3>1 DEF Lookup, Verifying
      <3>2. CASE call' = Decided(c, "denied")
        BY <1>3, <3>2
      <3>3. CASE call' = At(c, "raised")
        BY <1>2, <3>3
      <3> QED BY <1>6, <3>1, <3>2, <3>3 DEF Lookup
    <2> QED BY <1>6, <2>1, QuietMaps DEF Lookup, Verifying, Ended
  <1>7. CASE Reserve(c)
    <2>1. call' = [call EXCEPT ![c] = call'[c]] /\ call'[c].ask = call[c].ask /\ call'[c].pc # "executed"
      BY <1>1, <1>3, <1>7 DEF Reserve
    <2> QED BY <1>7, <2>1, QuietMaps DEF Reserve, Ended
  <1>8. CASE Reserving(c)
    <2>1. call' = [call EXCEPT ![c] = call'[c]] /\ call'[c].ask = call[c].ask /\ call'[c].pc # "executed"
      BY <1>1, <1>2, <1>3, <1>8 DEF Reserving
    <2> QED BY <1>8, <2>1, QuietMaps DEF Reserving, Ended
  <1>9. CASE Notify(c)
    <2>1. call' = [call EXCEPT ![c] = call'[c]] /\ call'[c].ask = call[c].ask /\ call'[c].pc # "executed"
      BY <1>1, <1>9 DEF Notify
    <2> QED BY <1>9, <2>1, QuietMaps DEF Notify, Ended
  <1>10. CASE Notified(c)
    <2>1. call' = [call EXCEPT ![c] = call'[c]] /\ call'[c].ask = call[c].ask /\ call'[c].pc # "executed"
      BY <1>1, <1>2, <1>10 DEF Notified, After
    <2> QED BY <1>10, <2>1, QuietMaps DEF Notified, Ended
  <1>11. CASE Write(c)
    <2>1. call' = [call EXCEPT ![c] = call'[c]] /\ call'[c].ask = call[c].ask /\ call'[c].pc # "executed"
      BY <1>1, <1>2, <1>11 DEF Write
    <2> QED BY <1>11, <2>1, QuietMaps DEF Write, Ended
  <1>12. CASE Cancel(c)
    <2>1. call' = [call EXCEPT ![c] = call'[c]] /\ call'[c].ask = call[c].ask /\ call'[c].pc # "executed"
      BY <1>1, <1>2, <1>12 DEF Cancel
    <2>2. call[c].pc \notin Ended
      BY <1>12 DEF Cancel, Suspended, Verifying, Ended
    <2> QED BY <1>12, <2>1, <2>2, QuietMaps DEF Cancel
  <1>13. CASE Flush(c)
    BY <1>13, FlushMaps
  <1>14. CASE FlushFails(c)
    BY <1>14, FlushMaps
  <1>15. CASE Execute(c)
    BY <1>15, ExecuteMaps
  <1> QED BY <1>4, <1>5, <1>6, <1>7, <1>8, <1>9, <1>10, <1>11, <1>12, <1>13, <1>14, <1>15
         DEF Proceed

LEMMA TrackerAnswersMaps ==
    ASSUME GuardInv, NEW c \in Call, TrackerAnswers(c)
    PROVE  Promise!Next
  <1>1. /\ call[c].reservation = "sent" /\ UNCHANGED <<guard, file>> /\ CallInv(c)
        /\ call[c].decision \in {"none", "allowed", "denied"}
    BY DEF TrackerAnswers, GuardInv, TypeOK
  <1>2. /\ charged[c] = {} /\ file[c] = <<>> /\ call[c].pc # "executed"
    BY <1>1 DEF CallInv, Charging, Deciding, Recording, Silent
  <1>3. PICK jtis \in SUBSET Jti : charged' = [charged EXCEPT ![c] = jtis]
    <2>1. Reserved(call[c].ask) \in SUBSET Jti /\ charged[c] \in SUBSET Jti
      BY DEF Reserved, Jti, GuardInv, TypeOK
    <2> QED BY <2>1 DEF TrackerAnswers
  <1>4. \A d \in Call : call'[d].ask = call[d].ask /\ call'[d].pc = call[d].pc
    BY DEF TrackerAnswers, GuardInv, TypeOK
  <1>5. Terms' = Terms /\ Stage' = Stage /\ Stage[c] # "ran"
    BY <1>1, <1>2, <1>4 DEF Terms, Stage, Owed
  <1>6. Promise!Charge(c, jtis)
    BY <1>1, <1>2, <1>3, <1>5 DEF Promise!Charge, Terms, Stage
  <1> QED BY <1>6 DEF Promise!Next

LEMMA CallbackAnswersMaps ==
    ASSUME GuardInv, NEW c \in Call, CallbackAnswers(c)
    PROVE  Promise!Next
  <1>1. /\ call[c].delivery = "sent" /\ UNCHANGED <<guard, charged>> /\ CallInv(c)
        /\ call[c].decision \in {"none", "allowed", "denied"}
    BY DEF CallbackAnswers, GuardInv, TypeOK
  <1>2. file[c] = <<>> /\ call[c].decision \in {"allowed", "denied"}
    BY <1>1 DEF CallInv, Recording, Silent
  <1>3. \A d \in Call : call'[d].ask = call[d].ask /\ call'[d].pc = call[d].pc
    BY DEF CallbackAnswers, GuardInv, TypeOK
  <1>4. CASE file' = [file EXCEPT ![c] = Append(@, call[c].decision)]
    <2>1. file' = [d \in Call |-> IF d \in {c} THEN <<call[d].decision>> ELSE file[d]]
      BY <1>2, <1>4, LineType DEF GuardInv, TypeOK
    <2>2. Tells(c, {c})
      BY <1>1, <1>2, <1>3, <2>1 DEF Tells
    <2> QED BY <2>2, TellsMaps
  <1>5. CASE file' = file
    <2>1. file' = [d \in Call |-> IF d \in {} THEN <<call[d].decision>> ELSE file[d]]
      BY <1>5 DEF GuardInv, TypeOK
    <2>2. Tells(c, {})
      BY <1>1, <1>3, <2>1 DEF Tells
    <2> QED BY <2>2, TellsMaps
  <1> QED BY <1>4, <1>5 DEF CallbackAnswers, GuardInv, TypeOK

(* The guarded call implements the promise of AuthorizedCall: charged,     *)
(* then told, then run.                                                    *)
THEOREM Implementation == Spec => ImplementsPromise
  <1>1. Init => Promise!Init
    BY InitMaps
  <1>2. GuardInv /\ [Next]_vars => [Promise!Next]_(Promise!promise)
    <2>1. ASSUME GuardInv, UNCHANGED vars PROVE UNCHANGED Promise!promise
      BY <2>1 DEF vars, Promise!promise, Owed
    <2>2. ASSUME GuardInv, Next PROVE Promise!Next
      BY <2>2, ProceedMaps, TrackerAnswersMaps, CallbackAnswersMaps DEF Next, Answers
    <2> QED BY <2>1, <2>2
  <1> QED BY <1>1, <1>2, GuardInvariant, PTL DEF Spec, ImplementsPromise, Promise!Spec
=============================================================================
