------------------------------ MODULE ToolEntry ------------------------------
(***************************************************************************)
(* How a credential reaches a guarded tool, and through how many guards    *)
(* the call passes: the use_token context and the framework adapters of    *)
(* swarmauth/middleware.py, TokenContextMiddleware and                     *)
(* secure_mcp_http_tool of swarmauth/transport.py.                         *)
(*                                                                         *)
(* A server task serves one piece of work after another in one context:    *)
(* HTTP requests, and scopes of other types.  A handler nests use_token    *)
(* blocks, starts tasks and threads that outlive it, and may open an MCP   *)
(* session, whose task receives the messages of later requests.            *)
(*                                                                         *)
(* Verification (Delegation, GuardedCall) is left out: the guard lets a    *)
(* credential that is present pass.  What counts here is whose it is.      *)
(***************************************************************************)
EXTENDS Naturals, Sequences, FiniteSets

CONSTANTS
    Server,             \* the tasks of the server
    Spare,              \* the tasks and threads that handlers may start
    Work,               \* requests, other scopes and MCP messages
    Tools,              \* the tools that may be secured
    None,
    MaxDepth            \* bound on the open use_token blocks of a task

Task == Server \cup Spare

(* A credential belongs to the work it came with: the bearer header, the   *)
(* argument of use_token, or the token keyword of a call.                  *)
Credential == [of : Work, from : {"header", "context", "keyword"}]

Attribute == {"func", "coroutine", "_run", "_arun"}

(* A LangChain or CrewAI tool: the function attributes it has, and whose   *)
(* _run and _arun it uses: StructuredTool's or BaseTool's, which the       *)
(* adapter knows, or another class's, with a body of its own or one that   *)
(* forwards, _run to func and _arun to coroutine, or to _run without one.  *)
(* The stock Tool classes of LangChain and CrewAI forward.  A plain        *)
(* function (secure_tool_call, MCP, AutoGen) has func alone.               *)
ToolType ==
    [func : BOOLEAN, coroutine : BOOLEAN,
     run : {"absent", "structured", "body", "forwards"},
     arun : {"absent", "base", "structured", "body", "forwards"}]

(* The shapes of the frameworks: a StructuredTool has a function, BaseTool *)
(* leaves _run to its subclasses, and a CrewAI tool may have no _arun.     *)
IsTool(tool) ==
    /\ tool.run = "absent" => tool.arun = "absent" /\ (tool.func \/ tool.coroutine)
    /\ tool.run = "structured" => tool.arun \notin {"absent", "base"} /\ (tool.func \/ tool.coroutine)
    /\ tool.run = "forwards" => tool.func \/ tool.coroutine

ASSUME ToolEntryAssumption ==
    /\ Server \cap Spare = {}
    /\ None \notin Work \cup Credential
    /\ Tools \subseteq {tool \in ToolType : IsTool(tool)}
    /\ MaxDepth \in Nat \ {0}

VARIABLES
    tool,               \* the tool that was secured
    state,              \* "free", "idle", "serving", "session" or "over"
    work,               \* what every task works on
    context,            \* the value of _current_token in every task
    frames,             \* what the open use_token blocks of a task restore
    begun,              \* the work that has arrived
    ran                 \* history: the tool's run in the last step, if it ran

vars == <<tool, state, work, context, frames, begun, ran>>

TypeOK ==
    /\ tool \in Tools
    /\ state \in [Task -> {"free", "idle", "serving", "session", "over"}]
    /\ work \in [Task -> Work \cup {None}]
    /\ context \in [Task -> Credential \cup {None}]
    /\ frames \in [Task -> Seq(Credential \cup {None})]
    /\ begun \subseteq Work
    /\ ran \in [work : Work, tokens : SUBSET Credential, guards : Nat] \cup {None}

-----------------------------------------------------------------------------
(* Mutant: an _arun is taken for a forwarder once the functions are        *)
(* guarded.                                                                *)
WrappedFunctionsOnly(attribute) ==
    LET functions == tool.func \/ tool.coroutine IN
    CASE attribute = "func" -> tool.func
      [] attribute = "coroutine" -> tool.coroutine
      [] attribute = "_run" -> tool.run # "absent" /\ ~(functions /\ tool.run = "structured")
      [] attribute = "_arun" -> tool.arun \in {"body", "forwards"} /\ ~functions

(* secure_langchain_tool: the attributes it replaces by guarded ones.      *)
Wrapped(attribute) ==
    LET functions == tool.func \/ tool.coroutine IN
    CASE attribute = "func" -> tool.func
      [] attribute = "coroutine" -> tool.coroutine
      [] attribute = "_run" -> tool.run # "absent" /\ ~(functions /\ tool.run = "structured")
      [] attribute = "_arun" -> tool.arun \in {"body", "forwards"}

FuncPath == IF tool.func THEN {"func"} ELSE {}

(* The attributes a call of _run goes through, empty if it has no body.    *)
RunPath ==
    CASE tool.run \in {"structured", "forwards"} -> IF tool.func THEN {"_run", "func"} ELSE {}
      [] tool.run = "body" -> {"_run"}
      [] tool.run = "absent" -> {}

ARunPath ==
    CASE tool.arun \in {"structured", "forwards"} /\ tool.coroutine -> {"_arun", "coroutine"}
      [] tool.arun = "body" -> {"_arun"}
      [] tool.arun = "absent" -> {}
      [] OTHER -> IF RunPath = {} THEN {} ELSE {"_arun"} \cup RunPath

Path(attribute) ==
    CASE attribute = "func" -> FuncPath
      [] attribute = "coroutine" -> IF tool.coroutine THEN {"coroutine"} ELSE {}
      [] attribute = "_run" -> RunPath
      [] attribute = "_arun" -> ARunPath

(* The first guard on the way takes the token keyword out of the call, the *)
(* next ones are left with the context.                                    *)
TokensOf(guards, keyword, current) ==
    CASE guards = 0 -> {}
      [] guards = 1 -> IF keyword # None THEN {keyword} ELSE {current}
      [] OTHER -> (IF keyword # None THEN {keyword} ELSE {}) \cup {current}

-----------------------------------------------------------------------------
Init ==
    /\ tool \in Tools
    /\ state = [t \in Task |-> IF t \in Server THEN "idle" ELSE "free"]
    /\ work = [t \in Task |-> None]
    /\ context = [t \in Task |-> None]
    /\ frames = [t \in Task |-> <<>>]
    /\ begun = {}
    /\ ran = None

(* Work arrives once.                                                      *)
Arrives(w) == w \in Work \ begun /\ begun' = begun \cup {w}

(* The authorization headers of a request or a message; "malformed" stands *)
(* for another scheme, an empty or spaced value, non-ASCII and oversized.  *)
Headers == {"bearer", "none", "several", "malformed"}

Bearer(headers, w) == IF headers = "bearer" THEN [of |-> w, from |-> "header"] ELSE None

(* use_token.__enter__                                                     *)
Attach(t, token) ==
    /\ context' = [context EXCEPT ![t] = token]
    /\ frames' = [frames EXCEPT ![t] = Append(@, context[t])]

(* TokenContextMiddleware: a request without exactly one well-formed       *)
(* bearer credential is answered 401 and never reaches the application.    *)
Request(t, w, headers) ==
    LET token == Bearer(headers, w) IN
    /\ state[t] = "idle" /\ Arrives(w)
    /\ \/ token = None /\ UNCHANGED <<state, work, context, frames>>
       \/ /\ token # None /\ Attach(t, token)
          /\ state' = [state EXCEPT ![t] = "serving"]
          /\ work' = [work EXCEPT ![t] = w]
    /\ ran' = None
    /\ UNCHANGED tool

(* Scopes of other types (websocket, lifespan) pass through.               *)
OtherScope(t, w) ==
    /\ state[t] = "idle" /\ Arrives(w)
    /\ state' = [state EXCEPT ![t] = "serving"]
    /\ work' = [work EXCEPT ![t] = w]
    /\ ran' = None
    /\ UNCHANGED <<tool, context, frames>>

(* The handler enters and leaves a use_token block of its own; the         *)
(* middleware's block is left by End.                                      *)
Enter(t) ==
    /\ state[t] = "serving" /\ Len(frames[t]) < MaxDepth
    /\ Attach(t, [of |-> work[t], from |-> "context"])
    /\ ran' = None
    /\ UNCHANGED <<tool, state, work, begun>>

Leave(t) ==
    LET n == Len(frames[t]) IN
    /\ state[t] = "serving" /\ n > 0
    /\ context[t] # None /\ context[t].from = "context"
    /\ context' = [context EXCEPT ![t] = frames[t][n]]
    /\ frames' = [frames EXCEPT ![t] = SubSeq(@, 1, n - 1)]
    /\ ran' = None
    /\ UNCHANGED <<tool, state, work, begun>>

(* Mutant: the context is reset after the block instead of in `finally`.   *)
EndWithoutReset(t) ==
    /\ state[t] = "serving"
    /\ \/ UNCHANGED context
       \/ frames[t] # <<>> /\ context' = [context EXCEPT ![t] = frames[t][1]]
    /\ frames' = [frames EXCEPT ![t] = <<>>]
    /\ state' = [state EXCEPT ![t] = IF t \in Server THEN "idle" ELSE "over"]
    /\ work' = [work EXCEPT ![t] = None]
    /\ ran' = None
    /\ UNCHANGED <<tool, begun>>

(* The handler returns, raises or is cancelled, in any of its blocks: the  *)
(* `finally` of each block resets the context, the outermost last.         *)
End(t) ==
    /\ state[t] = "serving"
    /\ context' = [context EXCEPT ![t] = IF frames[t] = <<>> THEN @ ELSE frames[t][1]]
    /\ frames' = [frames EXCEPT ![t] = <<>>]
    /\ state' = [state EXCEPT ![t] = IF t \in Server THEN "idle" ELSE "over"]
    /\ work' = [work EXCEPT ![t] = None]
    /\ ran' = None
    /\ UNCHANGED <<tool, begun>>

(* A handler starts a task (or to_thread), which copies the context, or a  *)
(* thread, which begins with an empty one.                                 *)
Spawn(t, u, inherited) ==
    /\ state[t] = "serving" /\ state[u] = "free"
    /\ inherited \in {context[t], None}
    /\ state' = [state EXCEPT ![u] = "serving"]
    /\ work' = [work EXCEPT ![u] = work[t]]
    /\ context' = [context EXCEPT ![u] = inherited]
    /\ ran' = None
    /\ UNCHANGED <<tool, frames, begun>>

(* The MCP framework starts the task of a session while it serves the      *)
(* request that initialises it; the task keeps that request's context.     *)
OpenSession(t, u) ==
    /\ state[t] = "serving" /\ state[u] = "free"
    /\ state' = [state EXCEPT ![u] = "session"]
    /\ context' = [context EXCEPT ![u] = context[t]]
    /\ ran' = None
    /\ UNCHANGED <<tool, work, frames, begun>>

(* guard: the tool runs if every guard on the way finds a credential, the  *)
(* keyword or else the context.                                            *)
Invoke(t, w, attribute, keyword) ==
    LET guards == Cardinality({a \in Path(attribute) : Wrapped(a)})
        tokens == TokensOf(guards, keyword, context[t])
    IN  /\ Path(attribute) # {} /\ None \notin tokens
        /\ ran' = [work |-> w, tokens |-> tokens, guards |-> guards]

(* The framework or the handler calls the tool.                            *)
Call(t, attribute, keyword) ==
    /\ state[t] = "serving"
    /\ keyword \in {None, [of |-> work[t], from |-> "keyword"]}
    /\ Invoke(t, work[t], attribute, keyword)
    /\ UNCHANGED <<tool, state, work, context, frames, begun>>

PlainFunction == tool.func /\ ~tool.coroutine /\ tool.run = "absent"

(* Mutant: a message without a credential falls back to the session's.     *)
MessageInSession(t, w, headers) ==
    LET token == Bearer(headers, w) IN
    /\ state[t] = "session" /\ PlainFunction /\ Arrives(w)
    /\ Invoke(t, w, "func", token) \/ (token = None /\ ran' = None)
    /\ UNCHANGED <<tool, state, work, context, frames>>

(* secure_mcp_http_tool: a message is answered in the session's task, and  *)
(* its own header is the token keyword of the call; without exactly one    *)
(* well-formed credential the call is refused before the guard.            *)
Message(t, w, headers) ==
    LET token == Bearer(headers, w) IN
    /\ state[t] = "session" /\ PlainFunction /\ Arrives(w)
    /\ \/ token # None /\ Invoke(t, w, "func", token)
       \/ token = None /\ ran' = None
    /\ UNCHANGED <<tool, state, work, context, frames>>

Next ==
    \/ \E t \in Task, w \in Work, headers \in Headers : Request(t, w, headers) \/ Message(t, w, headers)
    \/ \E t \in Task, w \in Work : OtherScope(t, w)
    \/ \E t \in Task : Enter(t) \/ Leave(t) \/ End(t)
    \/ \E t, u \in Task : OpenSession(t, u) \/ \E inherited \in Credential \cup {None} : Spawn(t, u, inherited)
    \/ \E t \in Task, attribute \in Attribute, keyword \in Credential \cup {None} : Call(t, attribute, keyword)

Spec == Init /\ [][Next]_vars

-----------------------------------------------------------------------------
(* A tool never runs for one piece of work on the credential of another:   *)
(* not on one a finished request left in the server's task, not on the one *)
(* that opened the session, not on one a started task or thread inherited. *)
OwnCredential == ran # None => \A k \in ran.tokens : k.of = ran.work

(* Between two pieces of work the context of a server task holds nothing,  *)
(* however the last one ended and however deep its use_token blocks were.  *)
ContextRestored == \A t \in Server : state[t] = "idle" => context[t] = None /\ frames[t] = <<>>

(* Every way into a tool that secure_langchain_tool has secured passes a   *)
(* guard, and exactly one, so that a call is charged once.  A _run or an   *)
(* _arun that forwards is known to do so only if StructuredTool or         *)
(* BaseTool defines it: any other one, the stock Tool class's too, is      *)
(* guarded as an entry point of its own, and its calls are charged for     *)
(* each guard on the way.                                                  *)
GuardedOnce ==
    ran # None => /\ ran.guards >= 1
                  /\ "forwards" \notin {tool.run, tool.arun} => ran.guards = 1
=============================================================================
