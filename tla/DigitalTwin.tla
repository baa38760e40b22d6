----------------------------- MODULE DigitalTwin -----------------------------
(***************************************************************************)
(* The provider-neutral runtime every workforce agent executes in          *)
(* (runtime/digital_twin).  execute() runs or reopens one execution: under *)
(* a file lock of that execution it looks for a stored intent and receipt, *)
(* saves an intent, lets the provider work with a bounded tool gateway and *)
(* saves a receipt.  Intent and receipt are write-once files; the process  *)
(* may die between any two steps, and the lock dies with it.               *)
(*                                                                         *)
(* Abstractions.  A request's digest is its assignment: the time it was    *)
(* created at and the source artifacts it names.  Twin, authority and      *)
(* provider of an execution are fixed, and a call whose twin, role or tool *)
(* profile does not match them raises without touching anything.  Tool     *)
(* output is counted in units.                                             *)
(***************************************************************************)
EXTENDS Naturals

CONSTANTS Callers,         \* the threads and processes that call execute
          Executions,      \* execution identifiers
          LiveExecutions,  \* those whose provider needs live authorization
          AllowLive,       \* their authority and the operator allow it
          ToolExecutions,  \* those whose authority allows tools
          MaxToolCalls,    \* their tool budget
          MaxOutput,       \* their output budget, in units
          Expiry,          \* when every delegated authority expires
          MaxTime,         \* bound on the clock
          MaxFaults        \* bound on crashes, failed writes and provider failures

ASSUME TwinAssumption ==
  /\ LiveExecutions \subseteq Executions
  /\ ToolExecutions \subseteq Executions
  /\ AllowLive \in BOOLEAN
  /\ {MaxToolCalls, MaxOutput, MaxFaults} \subseteq Nat
  /\ {Expiry, MaxTime} \subseteq Nat \ {0}    \* the clock starts at 1

VARIABLES now,        \* the clock
          intent,     \* the intent file of each execution
          receipt,    \* the receipt file of each execution
          call,       \* what each caller is doing
          provided,   \* how often the provider of an execution ran
          toolCalls,  \* how often its tools were called, and how late
          faults

twinVars == <<now, intent, receipt, call, provided, toolCalls, faults>>

Absent == [file |-> "absent"]
Torn == [file |-> "torn"]

Whole(f) == f.file = "whole"

ExecutionStatus == {"SUCCEEDED", "FAILED"}

(* DigitalTwinAssignment and the ProviderExecutionRequest around it.       *)
Requests(Sources) == [at: 1..MaxTime, sources: Sources]

DigitalTwinExecutionIntent(Sources) == [file: {"whole"}, request: Requests(Sources)]

DigitalTwinExecutionReceipt(Sources) ==
  [file: {"whole"}, request: Requests(Sources), status: ExecutionStatus,
   evidence: 0..MaxToolCalls]

NoRequest == [at |-> 1, sources |-> {}]

Idle == [pc |-> "idle", exec |-> "none", request |-> NoRequest, evidence |-> 0,
         used |-> 0, status |-> "FAILED"]

(* A fault: a process crash, a write that raises, a provider that fails.   *)
Fault == faults < MaxFaults /\ faults' = faults + 1

(* A caller may call again once its last call has returned or raised.      *)
Ready(c) == call[c].pc = "idle"

At(c, pc) == call[c].pc = pc

Goto(c, pc) == call' = [call EXCEPT ![c].pc = pc]

(* The call returns or raises; one that asked for something else than is   *)
(* stored is kept apart until it has raised.                               *)
Return(c) == call' = [call EXCEPT ![c] = Idle]

Mismatch(c) ==
  call' = [call EXCEPT ![c] = [Idle EXCEPT !.pc = "mismatch", !.exec = call[c].exec,
                                           !.request = call[c].request]]

Raise(c) ==
  /\ At(c, "mismatch")
  /\ Return(c)
  /\ UNCHANGED <<now, intent, receipt, provided, toolCalls, faults>>

Holding == {"saveIntent", "fillIntent", "start", "work", "tool", "saveReceipt", "fillReceipt"}

-----------------------------------------------------------------------------
Current == now < Expiry

ValidateAndSelect(e) == Current /\ (e \in LiveExecutions => AllowLive)

Execute(c, e, sources) ==
  /\ Ready(c)
  /\ ValidateAndSelect(e)
  /\ call' = [call EXCEPT ![c] = [Idle EXCEPT !.pc = "lock", !.exec = e,
                !.request = [at |-> now, sources |-> sources]]]
  /\ UNCHANGED <<now, intent, receipt, provided, toolCalls, faults>>

ValidateIntentByTenant(c) == TRUE

ValidateIntent(c) == intent[call[c].exec].request = call[c].request

ValidateReceipt(c) == receipt[call[c].exec].request = call[c].request

UnlockedAlways(c) == TRUE

Unlocked(c) ==
  \A d \in Callers \ {c} : call[d].exec = call[c].exec => call[d].pc \notin Holding

(* The files contradict each other or cannot be read.                      *)
Unusable(e) ==
  \/ intent[e] = Torn \/ receipt[e] = Torn
  \/ Whole(receipt[e]) /\ ~Whole(intent[e])

(* execution_lock, and what is done first under it: find_intent,           *)
(* find_receipt and the comparison with the request.                       *)
AcquireLock(c) ==
  LET e == call[c].exec
      i == intent[e]
      r == receipt[e]
      same == ValidateIntent(c) /\ (Whole(r) => ValidateReceipt(c))
  IN /\ At(c, "lock")
     /\ Unlocked(c)
     /\ \/ /\ Unusable(e)
           /\ Return(c)
        \/ /\ ~Unusable(e) /\ Whole(i) /\ ~same
           /\ Mismatch(c)
        \/ /\ ~Unusable(e) /\ Whole(r) /\ same
           /\ call' = [call EXCEPT ![c].pc = "returned", ![c].status = r.status]
        \/ /\ i = Absent /\ r = Absent
           /\ Goto(c, "saveIntent")
        \/ /\ Whole(i) /\ r = Absent /\ same
           /\ IF e \in LiveExecutions THEN Return(c) ELSE Goto(c, "start")
     /\ UNCHANGED <<now, intent, receipt, provided, toolCalls, faults>>

(* save_intent and save_receipt: exclusive creation, then the content; a   *)
(* write that raises removes the file.                                     *)
SaveIntent(c) ==
  /\ At(c, "saveIntent")
  /\ intent' = [intent EXCEPT ![call[c].exec] = IF @ = Absent THEN Torn ELSE @]
  /\ Goto(c, CASE intent[call[c].exec] = Absent -> "fillIntent"
               [] Whole(intent[call[c].exec]) /\ ValidateIntent(c) -> "start"
               [] OTHER -> "idle")
  /\ UNCHANGED <<now, receipt, provided, toolCalls, faults>>

FillIntent(c) ==
  /\ At(c, "fillIntent")
  /\ \/ /\ intent' = [intent EXCEPT ![call[c].exec] =
                        [file |-> "whole", request |-> call[c].request]]
        /\ Goto(c, "start")
        /\ UNCHANGED faults
     \/ /\ Fault
        /\ intent' = [intent EXCEPT ![call[c].exec] = Absent]
        /\ Return(c)
  /\ UNCHANGED <<now, receipt, provided, toolCalls>>

StartProvider(c) ==
  /\ At(c, "start")
  /\ provided' = [provided EXCEPT ![call[c].exec] = @ + 1]
  /\ Goto(c, "work")
  /\ UNCHANGED <<now, intent, receipt, toolCalls, faults>>

(* BoundedToolGateway.invoke up to the tool: the allowlist, the budget and *)
(* the expiry are checked, and the call takes its number among the         *)
(* evidence, which holds every tool that was called whatever came of it.   *)
WithinAllowlist(c) == call[c].exec \in ToolExecutions /\ Current

WithinBudget(c) ==
  call[c].exec \in ToolExecutions /\ Current /\ call[c].evidence < MaxToolCalls

InvokeTool(c) ==
  /\ At(c, "work")
  /\ call[c].exec \in ToolExecutions
  /\ IF WithinBudget(c)
     THEN /\ toolCalls' = [toolCalls EXCEPT ![call[c].exec] =
                [count |-> @.count + 1, last |-> now]]
          /\ call' = [call EXCEPT ![c].evidence = @ + 1, ![c].pc = "tool"]
     ELSE /\ toolCalls' = toolCalls
          /\ Goto(c, "saveReceipt")
  /\ UNCHANGED <<now, intent, receipt, provided, faults>>

(* The tool returns: its output and, once more, the expiry are checked.  A *)
(* refused or failed call ends the provider's work.                        *)
ReturnTool(c) ==
  /\ At(c, "tool")
  /\ \E failed \in BOOLEAN, output \in 1..2 :
       LET ok == ~failed /\ call[c].used + output <= MaxOutput /\ Current
       IN call' = [call EXCEPT ![c].used = IF ok THEN @ + output ELSE @,
                               ![c].pc = IF ok THEN "work" ELSE "saveReceipt"]
  /\ UNCHANGED <<now, intent, receipt, provided, toolCalls, faults>>

(* The provider returns: _validate_result and the expiry decide between    *)
(* success and a failure code.                                             *)
Conclude(c) ==
  /\ At(c, "work")
  /\ \/ /\ Current
        /\ call' = [call EXCEPT ![c].pc = "saveReceipt", ![c].status = "SUCCEEDED"]
        /\ UNCHANGED faults
     \/ /\ ~Current
        /\ Goto(c, "saveReceipt")
        /\ UNCHANGED faults
     \/ /\ Fault               \* it raised, or its result is not valid
        /\ Goto(c, "saveReceipt")
  /\ UNCHANGED <<now, intent, receipt, provided, toolCalls>>

SaveReceipt(c) ==
  /\ At(c, "saveReceipt")
  /\ IF receipt[call[c].exec] = Absent
     THEN /\ receipt' = [receipt EXCEPT ![call[c].exec] = Torn]
          /\ Goto(c, "fillReceipt")
     ELSE receipt' = receipt /\ Return(c)
  /\ UNCHANGED <<now, intent, provided, toolCalls, faults>>

FillReceipt(c) ==
  /\ At(c, "fillReceipt")
  /\ \/ /\ receipt' = [receipt EXCEPT ![call[c].exec] =
              [file |-> "whole", request |-> call[c].request, status |-> call[c].status,
               evidence |-> call[c].evidence]]
        /\ Goto(c, "returned")
        /\ UNCHANGED faults
     \/ /\ Fault
        /\ receipt' = [receipt EXCEPT ![call[c].exec] = Absent]
        /\ Return(c)
  /\ UNCHANGED <<now, intent, provided, toolCalls>>

Tick ==
  /\ now < MaxTime
  /\ now' = now + 1
  /\ UNCHANGED <<intent, receipt, call, provided, toolCalls, faults>>

(* A process dies, and with it the calls of some of the callers.           *)
Crash ==
  /\ Fault
  /\ \E dead \in SUBSET Callers :
       /\ \E c \in dead : ~Ready(c)
       /\ call' = [c \in Callers |-> IF c \in dead THEN Idle ELSE call[c]]
  /\ UNCHANGED <<now, intent, receipt, provided, toolCalls>>

-----------------------------------------------------------------------------
TwinInit ==
  /\ now = 1
  /\ intent = [e \in Executions |-> Absent]
  /\ receipt = [e \in Executions |-> Absent]
  /\ call = [c \in Callers |-> Idle]
  /\ provided = [e \in Executions |-> 0]
  /\ toolCalls = [e \in Executions |-> [count |-> 0, last |-> 0]]
  /\ faults = 0

RuntimeStep(c) ==
  \/ AcquireLock(c) \/ SaveIntent(c) \/ FillIntent(c) \/ StartProvider(c)
  \/ InvokeTool(c) \/ ReturnTool(c) \/ Conclude(c) \/ SaveReceipt(c) \/ FillReceipt(c)
  \/ Raise(c)
=============================================================================
