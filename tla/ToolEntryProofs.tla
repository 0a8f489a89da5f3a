--------------------------- MODULE ToolEntryProofs ---------------------------
(***************************************************************************)
(* Proofs about ToolEntry, for every set of tasks, work and tools and      *)
(* every depth of use_token blocks: a tool runs only on credentials of the *)
(* work it runs for, and the context of a server task is empty between two *)
(* pieces of work.                                                         *)
(***************************************************************************)
EXTENDS ToolEntry, FiniteSetTheorems, TLAPS

Owns(w, k) == k = None \/ (k \in Credential /\ k.of = w)

(* Whatever a task that serves holds, or will restore, is its own work's.  *)
HoldsOwn(t) ==
    state[t] = "serving" =>
        /\ work[t] \in Work
        /\ Owns(work[t], context[t])
        /\ \A i \in 1 .. Len(frames[t]) : Owns(work[t], frames[t][i])

(* The outermost block of a server task restores the empty context.        *)
Restores(t) ==
    t \in Server =>
        /\ state[t] \in {"idle", "serving"}
        /\ state[t] = "idle" => frames[t] = <<>>
        /\ frames[t] = <<>> => context[t] = None
        /\ frames[t] # <<>> => frames[t][1] = None

(* Only server tasks are idle, and a task starts without open blocks.      *)
Fresh(t) ==
    /\ state[t] = "idle" => t \in Server
    /\ state[t] = "free" => frames[t] = <<>>

TaskInv(t) == HoldsOwn(t) /\ Restores(t) /\ Fresh(t)

EntryInv == TypeOK /\ (\A t \in Task : TaskInv(t)) /\ OwnCredential

-----------------------------------------------------------------------------
(* The guards of a call find the token keyword or the context.             *)
LEMMA TokensFound ==
    ASSUME NEW n \in Nat, NEW keyword, NEW current
    PROVE  TokensOf(n, keyword, current) \subseteq {keyword, current}
  BY DEF TokensOf

(* A path through the tool passes finitely many guards.                    *)
LEMMA GuardsFinite ==
    ASSUME NEW attribute \in Attribute, tool \in ToolType
    PROVE  IsFiniteSet({a \in Path(attribute) : Wrapped(a)})
  <1>1. IsFiniteSet(Attribute)
    <2>1. IsFiniteSet({"func"})
      BY FS_Singleton
    <2>2. IsFiniteSet({"func"} \cup {"coroutine"})
      BY <2>1, FS_AddElement
    <2>3. IsFiniteSet(({"func"} \cup {"coroutine"}) \cup {"_run"})
      BY <2>2, FS_AddElement
    <2>4. IsFiniteSet((({"func"} \cup {"coroutine"}) \cup {"_run"}) \cup {"_arun"})
      BY <2>3, FS_AddElement
    <2>5. Attribute = (({"func"} \cup {"coroutine"}) \cup {"_run"}) \cup {"_arun"}
      BY DEF Attribute
    <2> QED BY <2>4, <2>5
  <1>2. RunPath \subseteq Attribute
    BY DEF RunPath, ToolType, Attribute
  <1>3. ARunPath \subseteq Attribute
    BY <1>2 DEF ARunPath, Attribute
  <1>4. Path(attribute) \subseteq Attribute
    BY <1>2, <1>3 DEF Path, FuncPath, Attribute
  <1>5. {a \in Path(attribute) : Wrapped(a)} \in SUBSET Attribute
    BY <1>4
  <1> QED BY <1>1, <1>5, FS_Subset

LEMMA GuardsCounted ==
    ASSUME NEW attribute \in Attribute, tool \in ToolType
    PROVE  Cardinality({a \in Path(attribute) : Wrapped(a)}) \in Nat
  BY GuardsFinite, FS_CardinalityType

(* A plain function passes one guard, which takes the token keyword.       *)
LEMMA PlainFunctionGuardedOnce ==
    ASSUME PlainFunction, NEW keyword, keyword # None, NEW current
    PROVE  TokensOf(Cardinality({a \in Path("func") : Wrapped(a)}), keyword, current) = {keyword}
  <1>1. Path("func") = {"func"} /\ Wrapped("func")
    BY DEF Path, FuncPath, Wrapped, PlainFunction
  <1>2. {a \in Path("func") : Wrapped(a)} = {"func"}
    BY <1>1
  <1>3. Cardinality({a \in Path("func") : Wrapped(a)}) = 1
    BY <1>2, FS_Singleton
  <1>4. TokensOf(1, keyword, current) = {keyword}
    BY DEF TokensOf
  <1> QED BY <1>3, <1>4

LEMMA TypesOfTools ==
    ASSUME TypeOK PROVE tool \in ToolType
  BY ToolEntryAssumption DEF TypeOK

(* use_token.__enter__ on the task's own credential.                       *)
LEMMA AttachOwn ==
    ASSUME TypeOK, NEW t \in Task, NEW token \in Credential, Attach(t, token)
    PROVE  /\ context' \in [Task -> Credential \cup {None}]
           /\ frames' \in [Task -> Seq(Credential \cup {None})]
           /\ context'[t] = token
           /\ Len(frames'[t]) = Len(frames[t]) + 1
           /\ \A i \in 1 .. Len(frames[t]) : frames'[t][i] = frames[t][i]
           /\ frames'[t][Len(frames[t]) + 1] = context[t]
           /\ \A u \in Task \ {t} : context'[u] = context[u] /\ frames'[u] = frames[u]
  <1>1. frames[t] \in Seq(Credential \cup {None}) /\ context[t] \in Credential \cup {None}
    BY DEF TypeOK
  <1>2. frames'[t] = Append(frames[t], context[t]) /\ context'[t] = token
    BY DEF TypeOK, Attach
  <1>3. Append(frames[t], context[t]) \in Seq(Credential \cup {None})
    BY <1>1
  <1> QED BY <1>1, <1>2, <1>3 DEF TypeOK, Attach

-----------------------------------------------------------------------------
LEMMA EntryInit == Init => EntryInv
  <1> SUFFICES ASSUME Init PROVE EntryInv
    OBVIOUS
  <1>1. TypeOK
    BY ToolEntryAssumption DEF Init, TypeOK, Task
  <1>2. ASSUME NEW t \in Task PROVE TaskInv(t)
    BY DEF Init, TaskInv, HoldsOwn, Restores, Fresh
  <1> QED BY <1>1, <1>2 DEF Init, EntryInv, OwnCredential

Same(u) ==
    state'[u] = state[u] /\ work'[u] = work[u] /\ context'[u] = context[u] /\ frames'[u] = frames[u]

(* A task that a step does not touch keeps its part of the invariant.      *)
LEMMA OthersKeep ==
    ASSUME EntryInv, NEW u \in Task, Same(u)
    PROVE  TaskInv(u)'
  BY DEF EntryInv, TaskInv, HoldsOwn, Restores, Fresh, Same, Owns

LEMMA RequestInv ==
    ASSUME EntryInv, NEW t \in Task, NEW w \in Work, NEW headers, Request(t, w, headers)
    PROVE  EntryInv'
  <1> DEFINE token == Bearer(headers, w)
  <1>1. CASE token = None
    <2>1. /\ UNCHANGED <<tool, state, work, context, frames>> /\ ran' = None
          /\ begun' = begun \cup {w}
      BY <1>1, ToolEntryAssumption DEF Request, Arrives
    <2>2. TypeOK'
      BY <2>1 DEF EntryInv, TypeOK
    <2>3. \A u \in Task : TaskInv(u)'
      BY <2>1, OthersKeep DEF Same
    <2> QED BY <2>1, <2>2, <2>3 DEF EntryInv, OwnCredential
  <1>2. CASE token # None
    <2>1. token \in Credential /\ token.of = w
      BY <1>2 DEF Bearer, Credential
    <2>2. Attach(t, token) /\ UNCHANGED tool /\ ran' = None
      BY <1>2 DEF Request
    <2>3. /\ state[t] = "idle" /\ t \in Server
          /\ state' = [state EXCEPT ![t] = "serving"] /\ work' = [work EXCEPT ![t] = w]
          /\ begun' = begun \cup {w}
      BY <1>2 DEF Request, Arrives, EntryInv, TaskInv, Fresh
    <2>4. context[t] = None /\ Len(frames[t]) = 0 /\ TypeOK
      BY <2>3 DEF EntryInv, TaskInv, Restores
    <2> HIDE DEF token
    <2>5. /\ context' \in [Task -> Credential \cup {None}]
          /\ frames' \in [Task -> Seq(Credential \cup {None})]
          /\ context'[t] = token /\ Len(frames'[t]) = 1 /\ frames'[t][1] = None
          /\ \A u \in Task \ {t} : context'[u] = context[u] /\ frames'[u] = frames[u]
      <3>1. /\ context' \in [Task -> Credential \cup {None}]
            /\ frames' \in [Task -> Seq(Credential \cup {None})]
            /\ context'[t] = token
            /\ Len(frames'[t]) = Len(frames[t]) + 1
            /\ frames'[t][Len(frames[t]) + 1] = context[t]
            /\ \A u \in Task \ {t} : context'[u] = context[u] /\ frames'[u] = frames[u]
        BY <2>1, <2>2, <2>4, AttachOwn
      <3>2. Len(frames[t]) + 1 = 1
        BY <2>4
      <3> QED BY <2>4, <3>1, <3>2
    <2>6. TypeOK'
      BY <2>2, <2>3, <2>4, <2>5 DEF TypeOK
    <2>7. state'[t] = "serving" /\ work'[t] = w
      BY <2>3, <2>4 DEF TypeOK
    <2>8. frames'[t] # <<>>
      <3>1. Len(<<>>) = 0
        OBVIOUS
      <3>2. Len(frames'[t]) = 1
        BY <2>4, <2>5
      <3>3. frames'[t] = <<>> => Len(frames'[t]) = 0
        BY <3>1, Zenon
      <3> QED BY <3>2, <3>3
    <2>9. TaskInv(t)'
      BY <2>1, <2>3, <2>5, <2>7, <2>8 DEF TaskInv, HoldsOwn, Restores, Fresh, Owns
    <2>10. \A u \in Task \ {t} : Same(u)
      BY <2>3, <2>4, <2>5 DEF TypeOK, Same
    <2> QED BY <2>2, <2>6, <2>9, <2>10, OthersKeep DEF EntryInv, OwnCredential
  <1> QED BY <1>1, <1>2

LEMMA OtherScopeInv ==
    ASSUME EntryInv, NEW t \in Task, NEW w \in Work, OtherScope(t, w)
    PROVE  EntryInv'
  <1>1. TypeOK' /\ TypeOK /\ t \in Server /\ ran' = None
    BY DEF OtherScope, Arrives, EntryInv, TypeOK, TaskInv, Fresh
  <1>2. \A u \in Task \ {t} : Same(u)
    BY <1>1 DEF OtherScope, TypeOK, Same
  <1>3. /\ state'[t] = "serving" /\ work'[t] = w
        /\ frames'[t] = <<>> /\ context'[t] = None
    BY <1>1 DEF OtherScope, TypeOK, EntryInv, TaskInv, Restores
  <1>4. TaskInv(t)'
    BY <1>1, <1>3 DEF TaskInv, HoldsOwn, Restores, Fresh, Owns
  <1> QED BY <1>1, <1>2, <1>4, OthersKeep DEF EntryInv, OwnCredential

LEMMA EnterInv ==
    ASSUME EntryInv, NEW t \in Task, Enter(t)
    PROVE  EntryInv'
  <1> DEFINE token == [of |-> work[t], from |-> "context"]
  <1>1. /\ TypeOK /\ state[t] = "serving" /\ work[t] \in Work
        /\ TaskInv(t) /\ Attach(t, token)
        /\ UNCHANGED <<tool, state, work, begun>> /\ ran' = None
    BY DEF Enter, EntryInv, TaskInv, HoldsOwn
  <1>2. token \in Credential /\ token.of = work[t]
    BY <1>1 DEF Credential
  <1> HIDE DEF token
  <1>3. /\ context' \in [Task -> Credential \cup {None}]
        /\ frames' \in [Task -> Seq(Credential \cup {None})]
        /\ context'[t] = token
        /\ Len(frames'[t]) = Len(frames[t]) + 1
        /\ \A i \in 1 .. Len(frames[t]) : frames'[t][i] = frames[t][i]
        /\ frames'[t][Len(frames[t]) + 1] = context[t]
        /\ \A u \in Task \ {t} : context'[u] = context[u] /\ frames'[u] = frames[u]
    BY <1>1, <1>2, AttachOwn
  <1>4. TypeOK'
    BY <1>1, <1>3 DEF TypeOK
  <1>5. frames[t] \in Seq(Credential \cup {None}) /\ Len(frames[t]) \in Nat
    BY <1>1 DEF TypeOK
  <1>6. HoldsOwn(t)'
    BY <1>1, <1>2, <1>3, <1>5 DEF TaskInv, HoldsOwn, Owns
  <1>7. Restores(t)' /\ Fresh(t)'
    <2>1. frames'[t] # <<>>
      <3>1. Len(<<>>) = 0
        OBVIOUS
      <3> QED BY <1>3, <1>5, <3>1
    <2>2. CASE frames[t] = <<>>
      BY <1>1, <1>3, <2>1, <2>2 DEF TaskInv, Restores, Fresh
    <2>3. CASE frames[t] # <<>>
      <3>1. 1 \in 1 .. Len(frames[t])
        BY <1>5, <2>3
      <3> QED BY <1>1, <1>3, <2>1, <2>3, <3>1 DEF TaskInv, Restores, Fresh
    <2> QED BY <2>2, <2>3
  <1>8. \A u \in Task \ {t} : Same(u)
    BY <1>1, <1>3 DEF Same
  <1> QED BY <1>1, <1>4, <1>6, <1>7, <1>8, OthersKeep DEF EntryInv, TaskInv, OwnCredential

LEMMA LeaveInv ==
    ASSUME EntryInv, NEW t \in Task, Leave(t)
    PROVE  EntryInv'
  <1> DEFINE n == Len(frames[t])
  <1>1. /\ TypeOK /\ TaskInv(t) /\ state[t] = "serving" /\ n > 0
        /\ context' = [context EXCEPT ![t] = frames[t][n]]
        /\ frames' = [frames EXCEPT ![t] = SubSeq(frames[t], 1, n - 1)]
        /\ UNCHANGED <<tool, state, work, begun>> /\ ran' = None
    BY DEF Leave, EntryInv
  <1>2. frames[t] \in Seq(Credential \cup {None}) /\ n \in Nat /\ n \in 1 .. n
    BY <1>1 DEF TypeOK
  <1>3. /\ SubSeq(frames[t], 1, n - 1) \in Seq(Credential \cup {None})
        /\ Len(SubSeq(frames[t], 1, n - 1)) = n - 1
        /\ \A i \in 1 .. n - 1 : SubSeq(frames[t], 1, n - 1)[i] = frames[t][i]
    BY <1>1, <1>2
  <1>4. context'[t] = frames[t][n] /\ frames'[t] = SubSeq(frames[t], 1, n - 1)
    BY <1>1 DEF TypeOK
  <1>5. TypeOK'
    BY <1>1, <1>2, <1>3 DEF TypeOK
  <1>6. HoldsOwn(t)'
    BY <1>1, <1>2, <1>3, <1>4 DEF TaskInv, HoldsOwn, Owns
  <1>7. Restores(t)' /\ Fresh(t)'
    <2>1. CASE n = 1
      <3>1. frames'[t] = <<>> /\ (t \in Server => context'[t] = None)
        BY <1>1, <1>2, <1>3, <1>4, <2>1 DEF TaskInv, Restores
      <3> QED BY <1>1, <3>1 DEF TaskInv, Restores, Fresh
    <2>2. CASE n > 1
      <3>1. Len(frames'[t]) > 0 /\ frames'[t][1] = frames[t][1] /\ Len(<<>>) = 0
        BY <1>2, <1>3, <1>4, <2>2
      <3>2. frames'[t] # <<>> /\ frames[t] # <<>>
        BY <1>2, <2>2, <3>1
      <3> QED BY <1>1, <3>1, <3>2 DEF TaskInv, Restores, Fresh
    <2>3. n = 1 \/ n > 1
      <3>1. n \in Nat /\ n > 0
        BY <1>1, <1>2
      <3> HIDE DEF n
      <3> QED BY <3>1
    <2> QED BY <2>1, <2>2, <2>3
  <1>8. \A u \in Task \ {t} : Same(u)
    BY <1>1 DEF TypeOK, Same
  <1> QED BY <1>1, <1>5, <1>6, <1>7, <1>8, OthersKeep DEF EntryInv, TaskInv, OwnCredential

LEMMA EndInv ==
    ASSUME EntryInv, NEW t \in Task, End(t)
    PROVE  EntryInv'
  <1>1. /\ TypeOK /\ TaskInv(t) /\ state[t] = "serving" /\ ran' = None
    BY DEF End, EntryInv
  <1>2. frames[t] # <<>> => frames[t][1] \in Credential \cup {None}
    <2>1. frames[t] \in Seq(Credential \cup {None})
      BY <1>1 DEF TypeOK
    <2>2. frames[t] # <<>> => 1 \in 1 .. Len(frames[t])
      BY <2>1
    <2> QED BY <2>1, <2>2
  <1>3. TypeOK'
    BY <1>1, <1>2 DEF End, TypeOK
  <1>4. /\ frames'[t] = <<>>
        /\ state'[t] = IF t \in Server THEN "idle" ELSE "over"
        /\ context'[t] = IF frames[t] = <<>> THEN context[t] ELSE frames[t][1]
    BY <1>1 DEF End, TypeOK
  <1>5. TaskInv(t)'
    BY <1>1, <1>4 DEF TaskInv, HoldsOwn, Restores, Fresh
  <1>6. \A u \in Task \ {t} : Same(u)
    BY <1>1 DEF End, TypeOK, Same
  <1> QED BY <1>1, <1>3, <1>5, <1>6, OthersKeep DEF EntryInv, OwnCredential

LEMMA SpawnInv ==
    ASSUME EntryInv, NEW t \in Task, NEW u \in Task, NEW inherited, Spawn(t, u, inherited)
    PROVE  EntryInv'
  <1>1. /\ TypeOK /\ TaskInv(t) /\ TaskInv(u) /\ state[t] = "serving" /\ state[u] = "free"
        /\ ran' = None /\ inherited \in {context[t], None}
    BY DEF Spawn, EntryInv
  <1>2. TypeOK'
    BY <1>1 DEF Spawn, TypeOK
  <1>3. /\ state'[u] = "serving" /\ work'[u] = work[t]
        /\ context'[u] = inherited /\ frames'[u] = <<>>
    BY <1>1 DEF Spawn, TypeOK, TaskInv, Fresh
  <1>4. u \notin Server
    BY <1>1 DEF TaskInv, Restores
  <1>5. TaskInv(u)'
    BY <1>1, <1>3, <1>4 DEF TaskInv, HoldsOwn, Restores, Fresh, Owns
  <1>6. \A v \in Task \ {u} : Same(v)
    BY <1>1 DEF Spawn, TypeOK, Same
  <1> QED BY <1>1, <1>2, <1>5, <1>6, OthersKeep DEF EntryInv, OwnCredential

LEMMA OpenSessionInv ==
    ASSUME EntryInv, NEW t \in Task, NEW u \in Task, OpenSession(t, u)
    PROVE  EntryInv'
  <1>1. /\ TypeOK /\ TaskInv(u) /\ state[u] = "free" /\ ran' = None
    BY DEF OpenSession, EntryInv
  <1>2. TypeOK'
    BY <1>1 DEF OpenSession, TypeOK
  <1>3. state'[u] = "session" /\ u \notin Server
    BY <1>1 DEF OpenSession, TypeOK, TaskInv, Restores
  <1>4. TaskInv(u)'
    BY <1>3 DEF TaskInv, HoldsOwn, Restores, Fresh
  <1>5. \A v \in Task \ {u} : Same(v)
    BY <1>1 DEF OpenSession, TypeOK, Same
  <1> QED BY <1>1, <1>2, <1>4, <1>5, OthersKeep DEF EntryInv, OwnCredential

(* A run on the tokens of its work keeps the invariant.                    *)
LEMMA RunInv ==
    ASSUME EntryInv, NEW w \in Work, NEW tokens \in SUBSET Credential, NEW guards \in Nat,
           \A k \in tokens : k.of = w,
           ran' = [work |-> w, tokens |-> tokens, guards |-> guards],
           UNCHANGED <<tool, state, work, context, frames>>, begun' \subseteq Work
    PROVE  EntryInv'
  <1>1. ran'.work = w /\ ran'.tokens = tokens
    OBVIOUS
  <1>2. OwnCredential'
    BY <1>1 DEF OwnCredential
  <1>3. TypeOK'
    BY DEF EntryInv, TypeOK
  <1>4. \A u \in Task : TaskInv(u)'
    BY OthersKeep DEF Same
  <1> QED BY <1>2, <1>3, <1>4 DEF EntryInv

LEMMA CallInv ==
    ASSUME EntryInv, NEW t \in Task, NEW attribute \in Attribute, NEW keyword, Call(t, attribute, keyword)
    PROVE  EntryInv'
  <1> DEFINE guards == Cardinality({a \in Path(attribute) : Wrapped(a)})
             tokens == TokensOf(guards, keyword, context[t])
  <1>1. /\ state[t] = "serving" /\ keyword \in {None, [of |-> work[t], from |-> "keyword"]}
        /\ None \notin tokens
        /\ ran' = [work |-> work[t], tokens |-> tokens, guards |-> guards]
        /\ UNCHANGED <<tool, state, work, context, frames, begun>>
    BY DEF Call, Invoke
  <1>2. work[t] \in Work /\ Owns(work[t], context[t]) /\ begun' \subseteq Work
    BY <1>1 DEF EntryInv, TaskInv, HoldsOwn, TypeOK
  <1>3. Owns(work[t], keyword)
    BY <1>1, <1>2 DEF Owns, Credential
  <1>4. guards \in Nat
    BY GuardsCounted, TypesOfTools DEF EntryInv
  <1> HIDE DEF guards
  <1>5. tokens \subseteq {keyword, context[t]}
    BY <1>4, TokensFound
  <1>6. tokens \in SUBSET Credential /\ \A k \in tokens : k.of = work[t]
    BY <1>1, <1>2, <1>3, <1>5 DEF Owns
  <1> HIDE DEF tokens
  <1> QED BY <1>1, <1>2, <1>4, <1>6, RunInv

LEMMA MessageInv ==
    ASSUME EntryInv, NEW t \in Task, NEW w \in Work, NEW headers, Message(t, w, headers)
    PROVE  EntryInv'
  <1> DEFINE token == Bearer(headers, w)
             guards == Cardinality({a \in Path("func") : Wrapped(a)})
  <1>1. /\ PlainFunction /\ begun' \subseteq Work
        /\ UNCHANGED <<tool, state, work, context, frames>>
    BY DEF Message, Arrives, EntryInv, TypeOK
  <1>2. CASE token = None
    <2>1. ran' = None
      BY <1>2 DEF Message
    <2>2. TypeOK'
      BY <1>1, <2>1 DEF EntryInv, TypeOK
    <2>3. \A u \in Task : TaskInv(u)'
      BY <1>1, OthersKeep DEF Same
    <2> QED BY <2>1, <2>2, <2>3 DEF EntryInv, OwnCredential
  <1>3. CASE token # None
    <2>1. token \in Credential /\ token.of = w
      BY <1>3 DEF Bearer, Credential
    <2>2. ran' = [work |-> w, tokens |-> TokensOf(guards, token, context[t]), guards |-> guards]
      BY <1>3 DEF Message, Invoke
    <2> HIDE DEF token
    <2>3. TokensOf(guards, token, context[t]) = {token}
      BY <1>1, <1>3, PlainFunctionGuardedOnce
    <2>4. guards \in Nat
      BY GuardsCounted, TypesOfTools DEF EntryInv, Attribute
    <2> HIDE DEF guards
    <2> QED BY <1>1, <2>1, <2>2, <2>3, <2>4, RunInv
  <1> QED BY <1>2, <1>3

LEMMA StutterInv ==
    ASSUME EntryInv, UNCHANGED vars
    PROVE  EntryInv'
  <1>1. TypeOK' /\ OwnCredential'
    BY DEF EntryInv, vars, TypeOK, OwnCredential
  <1>2. \A u \in Task : TaskInv(u)'
    BY OthersKeep DEF vars, Same
  <1> QED BY <1>1, <1>2 DEF EntryInv

(* The inductive invariant of ToolEntry.                                   *)
THEOREM EntryInvariant == Spec => []EntryInv
  <1>1. ASSUME EntryInv, [Next]_vars PROVE EntryInv'
    <2>1. CASE UNCHANGED vars
      BY <1>1, <2>1, StutterInv
    <2>2. CASE Next
      BY <1>1, <2>2, RequestInv, MessageInv, OtherScopeInv, EnterInv, LeaveInv, EndInv,
         OpenSessionInv, SpawnInv, CallInv DEF Next
    <2> QED BY <1>1, <2>1, <2>2
  <1> QED BY EntryInit, <1>1, PTL DEF Spec

(* The values ToolEntry's variables take.                                  *)
THEOREM EntryTypes == Spec => []TypeOK
  <1>1. EntryInv => TypeOK
    BY DEF EntryInv
  <1> QED BY EntryInvariant, <1>1, PTL

(* A tool runs on no credential but those of the work it runs for, however *)
(* requests, tasks, threads and MCP sessions are interleaved.              *)
THEOREM CredentialsAreOwn == Spec => []OwnCredential
  <1>1. EntryInv => OwnCredential
    BY DEF EntryInv
  <1> QED BY EntryInvariant, <1>1, PTL

(* The context of a server task is empty between two pieces of work.       *)
THEOREM ServersAreClean == Spec => []ContextRestored
  <1>1. EntryInv => ContextRestored
    BY DEF EntryInv, TaskInv, Restores, ContextRestored, Task
  <1> QED BY EntryInvariant, <1>1, PTL

-----------------------------------------------------------------------------
(* A call of _run or _arun meets these guards on its way.                  *)
Guarded(attribute) == {a \in Path(attribute) : Wrapped(a)}

LEMMA RunGuarded ==
    ASSUME tool \in ToolType, IsTool(tool), RunPath # {}
    PROVE  /\ tool.run = "structured" => Guarded("_run") = {"func"}
           /\ tool.run = "body" => Guarded("_run") = {"_run"}
           /\ tool.run = "forwards" => Guarded("_run") = {"_run", "func"}
           /\ tool.run # "absent"
           /\ Path("_run") = RunPath
  <1>0. Path("_run") = RunPath
    BY DEF Path
  <1>1. CASE tool.run = "structured"
    <2>1. RunPath = {"_run", "func"} /\ tool.func
      BY <1>1 DEF RunPath
    <2>2. Wrapped("func") /\ ~ Wrapped("_run")
      BY <1>1, <2>1 DEF Wrapped
    <2> QED BY <1>0, <1>1, <2>1, <2>2 DEF Guarded
  <1>2. CASE tool.run = "body"
    <2>1. RunPath = {"_run"} /\ Wrapped("_run")
      BY <1>2 DEF RunPath, Wrapped
    <2> QED BY <1>0, <1>2, <2>1 DEF Guarded
  <1>3. CASE tool.run = "forwards"
    <2>1. RunPath = {"_run", "func"} /\ tool.func
      BY <1>3 DEF RunPath
    <2>2. Wrapped("func") /\ Wrapped("_run")
      BY <1>3, <2>1 DEF Wrapped
    <2> QED BY <1>0, <1>3, <2>1, <2>2 DEF Guarded
  <1>4. tool.run # "absent"
    BY DEF RunPath
  <1> QED BY <1>0, <1>1, <1>2, <1>3, <1>4

LEMMA ARunGuarded ==
    ASSUME tool \in ToolType, IsTool(tool), ARunPath # {}
    PROVE  /\ Guarded("_arun") # {}
           /\ "forwards" \notin {tool.run, tool.arun} => \E g : Guarded("_arun") = {g}
  <1>0. Path("_arun") = ARunPath
    BY DEF Path
  <1>1. CASE tool.arun \in {"structured", "forwards"} /\ tool.coroutine
    <2>1. ARunPath = {"_arun", "coroutine"}
      BY <1>1 DEF ARunPath
    <2>2. Wrapped("coroutine") /\ (Wrapped("_arun") <=> tool.arun = "forwards")
      BY <1>1 DEF Wrapped
    <2>3. "coroutine" \in Guarded("_arun")
      BY <1>0, <2>1, <2>2 DEF Guarded
    <2>4. tool.arun # "forwards" => Guarded("_arun") = {"coroutine"}
      BY <1>0, <2>1, <2>2 DEF Guarded
    <2> QED BY <2>3, <2>4
  <1>2. CASE tool.arun = "body"
    <2>1. ARunPath = {"_arun"} /\ Wrapped("_arun")
      BY <1>2 DEF ARunPath, Wrapped
    <2> QED BY <1>0, <2>1 DEF Guarded
  <1>3. CASE \/ tool.arun = "base"
             \/ tool.arun \in {"structured", "forwards"} /\ ~ tool.coroutine
    <2>1. RunPath # {} /\ ARunPath = {"_arun"} \cup RunPath
      BY <1>3 DEF ARunPath
    <2>2. "_arun" \notin RunPath
      BY DEF RunPath, ToolType
    <2>3. Wrapped("_arun") <=> tool.arun = "forwards"
      BY <1>3 DEF Wrapped
    <2>4. tool.arun # "forwards" => Guarded("_arun") = Guarded("_run")
      BY <1>0, <2>1, <2>3, RunGuarded DEF Guarded
    <2>5. tool.arun = "forwards" => "_arun" \in Guarded("_arun")
      BY <1>0, <2>1, <2>3 DEF Guarded
    <2>6. tool.run \in {"structured", "body", "forwards"}
      BY <2>1, RunGuarded DEF ToolType
    <2> QED BY <2>1, <2>4, <2>5, <2>6, RunGuarded
  <1>4. tool.arun # "absent"
    BY DEF ARunPath
  <1> QED BY <1>1, <1>2, <1>3, <1>4 DEF ToolType

(* Every way into a tool passes a guard, and two only where an override    *)
(* forwards.                                                               *)
LEMMA PathsGuarded ==
    ASSUME tool \in ToolType, IsTool(tool), NEW attribute \in Attribute,
           Path(attribute) # {}
    PROVE  /\ Guarded(attribute) # {}
           /\ "forwards" \notin {tool.run, tool.arun} => \E g : Guarded(attribute) = {g}
  <1>1. CASE attribute = "func"
    <2>1. Path("func") = {"func"} /\ Wrapped("func")
      BY <1>1 DEF Path, FuncPath, Wrapped
    <2> QED BY <1>1, <2>1 DEF Guarded
  <1>2. CASE attribute = "coroutine"
    <2>1. Path("coroutine") = {"coroutine"} /\ Wrapped("coroutine")
      BY <1>2 DEF Path, Wrapped
    <2> QED BY <1>2, <2>1 DEF Guarded
  <1>3. CASE attribute = "_run"
    <2>1. RunPath # {}
      BY <1>3 DEF Path
    <2>2. tool.run \in {"structured", "body", "forwards"}
      BY <2>1, RunGuarded DEF ToolType
    <2> QED BY <1>3, <2>1, <2>2, RunGuarded
  <1>4. CASE attribute = "_arun"
    BY <1>4, ARunGuarded DEF Path
  <1> QED BY <1>1, <1>2, <1>3, <1>4 DEF Attribute

(* The guards a call counts when it runs the tool.                         *)
LEMMA InvokeGuarded ==
    ASSUME TypeOK, NEW t, NEW w, NEW attribute \in Attribute, NEW keyword,
           Invoke(t, w, attribute, keyword), UNCHANGED tool
    PROVE  GuardedOnce'
  <1> DEFINE guards == Cardinality(Guarded(attribute))
  <1>1. tool \in ToolType /\ IsTool(tool) /\ Path(attribute) # {}
    BY ToolEntryAssumption DEF TypeOK, Invoke
  <1>2. ran'.guards = guards
    BY DEF Invoke, Guarded
  <1>3. guards \in Nat
    BY <1>1, GuardsCounted DEF Guarded
  <1>4. IsFiniteSet(Guarded(attribute))
    BY <1>1, GuardsFinite DEF Guarded
  <1>5. guards # 0
    BY <1>1, <1>4, PathsGuarded, FS_EmptySet
  <1>6. "forwards" \notin {tool.run, tool.arun} => guards = 1
    BY <1>1, PathsGuarded, FS_Singleton
  <1> HIDE DEF guards
  <1> QED BY <1>2, <1>3, <1>5, <1>6 DEF GuardedOnce

(* A secured tool never runs past its guards, and a call is charged once   *)
(* unless an override forwards, for every shape of tool.                   *)
THEOREM GuardedOnceCorrect == Spec => []GuardedOnce
  <1>1. Init => GuardedOnce
    BY DEF Init, GuardedOnce
  <1>2. ASSUME TypeOK, GuardedOnce, [Next]_vars PROVE GuardedOnce'
    <2>1. CASE UNCHANGED vars
      BY <1>2, <2>1 DEF vars, GuardedOnce
    <2>2. CASE ran' = None
      BY <2>2 DEF GuardedOnce
    <2>3. ASSUME NEW t \in Task, NEW attribute \in Attribute,
                 NEW keyword \in Credential \cup {None}, Call(t, attribute, keyword)
          PROVE  GuardedOnce'
      <3>1. Invoke(t, work[t], attribute, keyword) /\ UNCHANGED tool
        BY <2>3 DEF Call
      <3> QED BY <1>2, <3>1, InvokeGuarded
    <2>4. ASSUME NEW t \in Task, NEW w \in Work, NEW headers \in Headers, Message(t, w, headers)
          PROVE  GuardedOnce'
      <3>1. ran' = None \/ Invoke(t, w, "func", Bearer(headers, w))
        BY <2>4 DEF Message
      <3>2. UNCHANGED tool /\ "func" \in Attribute
        BY <2>4 DEF Message, Attribute
      <3> QED BY <1>2, <2>2, <3>1, <3>2, InvokeGuarded
    <2> QED
      BY <1>2, <2>1, <2>2, <2>3, <2>4
      DEF Next, Request, OtherScope, Enter, Leave, End, OpenSession, Spawn
  <1> QED BY <1>1, <1>2, EntryTypes, PTL DEF Spec
=============================================================================
