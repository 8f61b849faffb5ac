--------------------------- MODULE TriggerIngress ---------------------------
(***************************************************************************)
(* The creation of a Task from the user's words: the trigger connectors    *)
(* (interfaces/ingress_mcp.py), each a process that attests one message at *)
(* a time under its own lock, and the Hub's create_task (application/      *)
(* tasks.py), which verifies the attestation and inserts the Task.         *)
(*   tasks     the tasks rows, in the order of their creation              *)
(*   receipts  command_receipts of create_task: the Task of each key       *)
(*   calls     what each connector is doing                                *)
(*   now       the clock                                                   *)
(* One idempotency key stands for one message of the user: the ids of the  *)
(* message and of the turn are derived from it and the conversation.       *)
(*                                                                         *)
(* Left out: the shape checks on the arguments, which come first and       *)
(* change nothing; the signature and digests, which hold for what a        *)
(* connector issues; the profile, compared like the segments; and the      *)
(* check that a message has no Task yet, which the receipt of its key      *)
(* anticipates, as the two unique indexes of schema.sql repeat the guards. *)
(***************************************************************************)
EXTENDS TriggerPhrase

CONSTANTS Server,          \* connector processes
          Key,             \* idempotency keys
          Conversation,
          Message,         \* messages users send: sequences of segments
          NoTask,          \* no receipt
          MaxAge,          \* how old an attestation may be: 300 seconds
          MaxTime          \* bound on the clock

ASSUME IngressConstants ==
  /\ Message \subseteq Seq(Segment)
  /\ NoTask \notin Nat /\ {MaxAge, MaxTime} \subseteq Nat

VARIABLES tasks, receipts, calls, now

vars == <<tasks, receipts, calls, now>>

\* What the scanner finds in each message.
Spans == [m \in Message |-> Eligible(m)]

\* Where the first span of a message begins, of one that has any.
Starts == {Min(Spans[m]) : m \in {m \in Message : Spans[m] # {}}}

Evidence == [key : Key, conversation : Conversation, message : Message,
             issued : 0..MaxTime, start : Starts]

\* The arguments; "late": the message had its Task when the call came (history).
Input == [key : Key, conversation : Conversation, message : Message, late : BOOLEAN]

Call == [pc : {"look", "issue"}, input : Input]
          \cup [pc : {"create"}, late : BOOLEAN, evidence : Evidence]

NoCall == [pc |-> "idle"]

TypeOK ==
  /\ tasks \in Seq([evidence : Evidence, created : 0..MaxTime, live : BOOLEAN])
  /\ receipts \in [Key -> DOMAIN tasks \cup {NoTask}]
  /\ calls \in [Server -> Call \cup {NoCall}]
  /\ now \in 0..MaxTime

Init ==
  /\ tasks = <<>>
  /\ receipts = [k \in Key |-> NoTask]
  /\ calls = [s \in Server |-> NoCall]
  /\ now = 0

Leave(s) == calls' = [calls EXCEPT ![s] = NoCall]

-----------------------------------------------------------------------------
\* The receipt of the key answers exactly this message of this conversation.
IsAnswered(input) ==
  LET task == receipts[input.key]
  IN  /\ task # NoTask
      /\ tasks[task].evidence.conversation = input.conversation
      /\ tasks[task].evidence.message = input.message

\* create_triggered_task takes the lock.
Begin(s, k, c, m) ==
  LET given == [key |-> k, conversation |-> c, message |-> m]
  IN  /\ calls[s].pc = "idle"
      /\ calls' = [calls EXCEPT ![s] =
           [pc |-> "look", input |-> [key |-> k, conversation |-> c, message |-> m,
                                      late |-> IsAnswered(given)]]]
      /\ UNCHANGED <<tasks, receipts, now>>

\* Mutant: the evidence of a Task that has ended is not used again.
FoundIfLive(input) == IsAnswered(input) /\ tasks[receipts[input.key]].live

\* _existing_evidence
Found(input) == IsAnswered(input)

Look(s) ==
  LET input == calls[s].input
  IN  /\ calls[s].pc = "look"
      /\ calls' = [calls EXCEPT ![s] =
           IF Found(input)
           THEN [pc |-> "create", late |-> input.late,
                 evidence |-> tasks[receipts[input.key]].evidence]
           ELSE [pc |-> "issue", input |-> input]]
      /\ UNCHANGED <<tasks, receipts, now>>

\* issue_trigger_evidence: the first span, attested now; without one, TriggerNotFound.
Issue(s) ==
  LET input == calls[s].input
      spans == Spans[input.message]
  IN  /\ calls[s].pc = "issue"
      /\ spans # {}
      /\ calls' = [calls EXCEPT ![s] =
           [pc |-> "create", late |-> input.late,
            evidence |-> [key |-> input.key, conversation |-> input.conversation,
                          message |-> input.message, issued |-> now, start |-> Min(spans)]]]
      /\ UNCHANGED <<tasks, receipts, now>>

\* Mutant: an attestation does not age.
VerifiesEver(e) == e.start \in Spans[e.message]

\* verify_trigger
Verifies(e) ==
  /\ now - MaxAge <= e.issued
  /\ e.start \in Spans[e.message]

\* get_conversation_context, and the guard of create_task
ActiveIn(c) == {n \in DOMAIN tasks : tasks[n].live /\ tasks[n].evidence.conversation = c}

\* Mutant: only the same message cannot be at work twice.
IsFreeFor(e) == \A n \in ActiveIn(e.conversation) : tasks[n].evidence.key # e.key

IsFree(e) == ActiveIn(e.conversation) = {}

\* create_task: one transaction.  A key with a receipt is answered from it, or refused.
CreateTask(s) ==
  LET evidence == calls[s].evidence
  IN  /\ calls[s].pc = "create"
      /\ receipts[evidence.key] = NoTask
      /\ Verifies(evidence) /\ IsFree(evidence)
      /\ tasks' = Append(tasks, [evidence |-> evidence, created |-> now, live |-> TRUE])
      /\ receipts' = [receipts EXCEPT ![evidence.key] = Len(tasks) + 1]
      /\ Leave(s)
      /\ UNCHANGED now

\* The answer or the refusal, which leaves no trace; or the process is gone.
Return(s) ==
  /\ calls[s].pc # "idle"
  /\ Leave(s)
  /\ UNCHANGED <<tasks, receipts, now>>

\* The Task reaches DONE or CANCELLED.
End(n) ==
  /\ tasks[n].live
  /\ tasks' = [tasks EXCEPT ![n].live = FALSE]
  /\ UNCHANGED <<receipts, calls, now>>

Tick ==
  /\ now < MaxTime
  /\ now' = now + 1
  /\ UNCHANGED <<tasks, receipts, calls>>

Next ==
  \/ \E s \in Server, k \in Key, c \in Conversation, m \in Message : Begin(s, k, c, m)
  \/ \E s \in Server : Look(s) \/ Issue(s) \/ CreateTask(s) \/ Return(s)
  \/ \E n \in DOMAIN tasks : End(n)
  \/ Tick

Spec == Init /\ [][Next]_vars

-----------------------------------------------------------------------------
(***************************************************************************)
(* A conversation never has two Tasks at work, and a message never leads   *)
(* to two Tasks, not even after the first has ended: connectors that work  *)
(* on the same conversation or the same message at once do not know of     *)
(* each other.                                                             *)
(***************************************************************************)
OneTaskAtATime ==
  \A i, j \in DOMAIN tasks : i # j =>
    /\ tasks[i].evidence.key # tasks[j].evidence.key
    /\ tasks[i].evidence.conversation = tasks[j].evidence.conversation
         => ~(tasks[i].live /\ tasks[j].live)

Phrases == [m \in Message |-> TopLevel(m)]

(***************************************************************************)
(* A Task stands on the first phrase the user wrote at the top level of    *)
(* the message, attested shortly before the Task was created.              *)
(***************************************************************************)
TasksAreAttested ==
  \A n \in DOMAIN tasks :
    LET evidence == tasks[n].evidence
        phrases == Phrases[evidence.message]
    IN  /\ phrases # {} /\ evidence.start = Min(phrases)
        /\ tasks[n].created - evidence.issued <= MaxAge

(***************************************************************************)
(* A call for a message that has its Task is answered with that Task, by   *)
(* any connector, however long ago it was and whatever became of the Task: *)
(* what it submits is the first call's input to the letter, the time of    *)
(* its attestation included, and never one of its own.                     *)
(***************************************************************************)
LateCallReplays ==
  \A s \in Server :
    /\ calls[s].pc = "issue" => ~calls[s].input.late
    /\ calls[s].pc = "create" /\ calls[s].late =>
         calls[s].evidence = tasks[receipts[calls[s].evidence.key]].evidence
=============================================================================
