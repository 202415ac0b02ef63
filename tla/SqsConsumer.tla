------------------------------ MODULE SqsConsumer ------------------------------
(***************************************************************************)
(* aws-sqs-sns-example: MessagesController and SqsProducerService put      *)
(* messages into a standard SQS queue, SNS puts others, and the instances  *)
(* of SqsConsumerService take them out.                                    *)
(*                                                                         *)
(* External, from how the service configures and uses them: the queue,     *)
(* which hides a received message for the visibility timeout and shows it  *)
(* again unless it was deleted, and the Consumer of sqs-consumer, which    *)
(* receives a batch, runs handleMessage for all its messages at once,      *)
(* deletes every message whose handler did not throw, and polls again when *)
(* the whole batch is done.                                                *)
(***************************************************************************)
EXTENDS Integers, FiniteSets

CONSTANTS
    Message,    \* messages
    OuterType,  \* body.type of a message, or None
    InnerType,  \* type inside body.Message (an SNS envelope), or None
    None,       \* no type
    Consumer,   \* instances of the service
    BatchSize,  \* batchSize of the consumer
    MaxFaults   \* bound: restarts and failed deletes

ASSUME SqsAssumption ==
    /\ OuterType \in [Message -> {"order.created", "throw.error", "other", None}]
    /\ InnerType \in [Message -> {"order.created", "throw.error", "other", None}]
    /\ BatchSize \in Nat \ {0} /\ MaxFaults \in Nat
    /\ IsFiniteSet(Message)

VARIABLES
    queue,       \* unsent, visible, hidden or deleted, for every message
    batch,       \* what became of each message of a consumer's batch
    dispatched,  \* history: messages dispatch returned true for
    faults       \* faults so far

vars == <<queue, batch, dispatched, faults>>

Stage == {"none", "received", "handled"}

(* parsedPayloadBody?.type || payload?.type *)
Type(m) == IF InnerType[m] # None THEN InnerType[m] ELSE OuterType[m]

Init ==
    /\ queue = [m \in Message |-> "unsent"]
    /\ batch = [c \in Consumer |-> [m \in Message |-> "none"]]
    /\ dispatched = {}
    /\ faults = 0

Polls(c) == \A m \in Message : batch[c][m] = "none"

--------------------------------------------------------------------------------
(* POST /messages and the topic's subscription. *)
Send(m) ==
    /\ queue[m] = "unsent"
    /\ queue' = [queue EXCEPT ![m] = "visible"]
    /\ UNCHANGED <<batch, dispatched, faults>>

(* Mutant: the consumer polls again before its batch is done. *)
ReceiveAnytime(c, ms) ==
    /\ ms # {} /\ Cardinality(ms) <= BatchSize
    /\ \A m \in ms : queue[m] = "visible"
    /\ queue' = [m \in Message |-> IF m \in ms THEN "hidden" ELSE queue[m]]
    /\ batch' = [batch EXCEPT ![c] =
                   [m \in Message |-> IF m \in ms THEN "received" ELSE batch[c][m]]]
    /\ UNCHANGED <<dispatched, faults>>

(* The consumer receives up to batchSize visible messages. *)
Receive(c, ms) ==
    /\ Polls(c)
    /\ ms # {} /\ Cardinality(ms) <= BatchSize
    /\ \A m \in ms : queue[m] = "visible"
    /\ queue' = [m \in Message |-> IF m \in ms THEN "hidden" ELSE queue[m]]
    /\ batch' = [batch EXCEPT ![c] =
                   [m \in Message |-> IF m \in ms THEN "received" ELSE "none"]]
    /\ UNCHANGED <<dispatched, faults>>

(* Ten seconds after it was received a message is visible again. *)
VisibilityEnds(m) ==
    /\ queue[m] = "hidden"
    /\ queue' = [queue EXCEPT ![m] = "visible"]
    /\ UNCHANGED <<batch, dispatched, faults>>

(* Mutant: the inner type hides only an absent outer one. *)
DispatchesOuterFirst(m) ==
    (IF OuterType[m] # None THEN OuterType[m] ELSE InnerType[m]) # "throw.error"

(* dispatch: true unless the case throws; its catch returns false. *)
Dispatches(m) == Type(m) # "throw.error"

(* Mutant: handleMessage ignores what dispatch returns. *)
HandleWithoutCheck(c, m) ==
    /\ batch[c][m] = "received"
    /\ batch' = [batch EXCEPT ![c][m] = "handled"]
    /\ dispatched' = IF Dispatches(m) THEN dispatched \cup {m} ELSE dispatched
    /\ UNCHANGED <<queue, faults>>

(* handleMessage: it throws when dispatch returns false; the consumer then *)
(* leaves the message in the queue.                                        *)
Handle(c, m) ==
    /\ batch[c][m] = "received"
    /\ IF Dispatches(m)
         THEN /\ batch' = [batch EXCEPT ![c][m] = "handled"]
              /\ dispatched' = dispatched \cup {m}
         ELSE /\ batch' = [batch EXCEPT ![c][m] = "none"]
              /\ UNCHANGED dispatched
    /\ UNCHANGED <<queue, faults>>

(* The consumer deletes a handled message, shown again by then or not. *)
Delete(c, m) ==
    /\ batch[c][m] = "handled"
    /\ batch' = [batch EXCEPT ![c][m] = "none"]
    /\ queue' = [queue EXCEPT ![m] = "deleted"]
    /\ UNCHANGED <<dispatched, faults>>

(* The delete fails, or its receipt is too old: the message stays. *)
DeleteFails(c, m) ==
    /\ batch[c][m] = "handled"
    /\ faults < MaxFaults /\ faults' = faults + 1
    /\ batch' = [batch EXCEPT ![c][m] = "none"]
    /\ UNCHANGED <<queue, dispatched>>

(* onModuleDestroy stops the consumer and waits for nothing: the process     *)
(* ends or crashes with its batch at any stage, and starts again.            *)
Restart(c) ==
    /\ ~Polls(c)
    /\ faults < MaxFaults /\ faults' = faults + 1
    /\ batch' = [batch EXCEPT ![c] = [m \in Message |-> "none"]]
    /\ UNCHANGED <<queue, dispatched>>

Next ==
    \/ \E m \in Message : Send(m) \/ VisibilityEnds(m)
    \/ \E c \in Consumer :
        \/ \E ms \in SUBSET Message : Receive(c, ms)
        \/ \E m \in Message : Handle(c, m) \/ Delete(c, m) \/ DeleteFails(c, m)
        \/ Restart(c)

(* A consumer that receives again and again does not miss a visible message  *)
(* forever, nor does it miss the moment to delete it; handlers end; the      *)
(* visibility timeout passes.                                                *)
Fairness ==
    \A m \in Message :
        /\ WF_vars(VisibilityEnds(m))
        /\ \A c \in Consumer : WF_vars(Handle(c, m)) /\ WF_vars(Delete(c, m))
        /\ SF_vars(\E c \in Consumer, ms \in SUBSET Message : m \in ms /\ Receive(c, ms))

Spec == Init /\ [][Next]_vars /\ Fairness

--------------------------------------------------------------------------------
(* The types, and no more than batchSize messages in one consumer's hands. *)
TypeOK ==
    /\ queue \in [Message -> {"unsent", "visible", "hidden", "deleted"}]
    /\ batch \in [Consumer -> [Message -> Stage]]
    /\ dispatched \subseteq Message
    /\ faults \in 0 .. MaxFaults
    /\ \A c \in Consumer : Cardinality({m \in Message : batch[c][m] # "none"}) <= BatchSize

(* A message leaves the queue only after a dispatch that returned true: no   *)
(* timeout, second receiver, failed delete or restart loses one.             *)
NothingIsLost == \A m \in Message : queue[m] = "deleted" => m \in dispatched

(* A message that asks for an error is never dispatched and never deleted:   *)
(* without a dead-letter queue it comes back for good.                       *)
PoisonStays ==
    [][\A m \in Message :
         Type(m) = "throw.error" => m \notin dispatched' /\ queue'[m] # "deleted"]_vars

(* Every other message that was sent is deleted in the end, although the     *)
(* poisoned ones take places in the batches again and again.                 *)
GoodMessagesAreDeleted ==
    \A m \in Message :
        Type(m) # "throw.error" => (queue[m] = "visible" ~> queue[m] = "deleted")
================================================================================
