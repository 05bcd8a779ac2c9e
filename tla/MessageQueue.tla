----------------------------- MODULE MessageQueue -----------------------------
(***************************************************************************)
(* The message queue of a tlv_thread_t (hld/corelib/linux/threads.cpp): a  *)
(* circular buffer of encoded messages, a mutex and a condition variable.  *)
(* Any thread sends, one thread receives.  Each number of a message is cut *)
(* into bytes and put together again the same way; here a message is one   *)
(* number of two bytes.                                                    *)
(***************************************************************************)
EXTENDS Integers, Sequences

CONSTANTS
  Senders,    (* the threads that send                                     *)
  Numbers,    (* what they send                                            *)
  Byte,       (* values of a byte: 256, half of them negative in a char    *)
  QueueCap,   (* messages the circular buffer holds                        *)
  MaxSends    (* messages a sender sends, at most                          *)

ASSUME MessageQueueAssumption ==
  /\ Byte \in Nat /\ Byte >= 2 /\ Numbers \subseteq 0 .. Byte * Byte - 1
  /\ QueueCap \in Nat \ {0} /\ MaxSends \in Nat \ {0}

VARIABLES
  queue,        (* the encoded messages                                    *)
  sent,         (* the numbers they stand for                              *)
  mutex,        (* who holds message_mutex: "free", "receiver"             *)
  sending,      (* what tlv_mq_send of each sender is about to send        *)
  count,        (* messages each sender has begun to send                  *)
  rpc,          (* the receiver: "receive", "wait", "woken"                *)
  rc, message, expected,  (* tlv_mq_receive's result, what came, was sent  *)
  spurious      (* pthread_cond_wait has returned without a signal         *)

received == <<rc, message, expected>>
vars == <<queue, sent, mutex, sending, count, rpc, received, spurious>>

None == -1

MUT_Encode(w) == <<w % Byte, w \div Byte>>      \* mutant: bytes swapped
Encode(w) == <<w \div Byte, w % Byte>>

(* The bytes are read back from a signed char: a low byte of the upper half*)
(* extends its sign over the high byte it is or-ed with.                   *)
Decode(b) == IF b[2] >= Byte \div 2 THEN (Byte - 1) * Byte + b[2] ELSE b[1] * Byte + b[2]

Init ==
  /\ queue = <<>> /\ sent = <<>> /\ mutex = "free"
  /\ sending = [s \in Senders |-> None] /\ count = [s \in Senders |-> 0]
  /\ rpc = "receive" /\ rc = 0 /\ message = None /\ expected = None
  /\ spurious = FALSE

(* The caller of tlv_mq_send has its message; it asks for the mutex next.  *)
SendBegin(s) ==
  /\ sending[s] = None /\ count[s] < MaxSends
  /\ \E w \in Numbers : sending' = [sending EXCEPT ![s] = w]
  /\ count' = [count EXCEPT ![s] = @ + 1]
  /\ UNCHANGED <<queue, sent, mutex, rpc, received, spurious>>

MUT_Signalled == rpc                            \* mutant: no signal
Signalled == IF rpc = "wait" THEN "woken" ELSE rpc

MUT_Room == TRUE                                \* mutant: no test for a full buffer
Room == Len(queue) < QueueCap

(* With the mutex: the signal, then BufferItem, which drops the message    *)
(* when the buffer is full.                                                *)
Send(s) ==
  /\ sending[s] # None /\ mutex = "free"
  /\ rpc' = Signalled
  /\ IF Room
       THEN queue' = Append(queue, Encode(sending[s])) /\ sent' = Append(sent, sending[s])
       ELSE UNCHANGED <<queue, sent>>
  /\ sending' = [sending EXCEPT ![s] = None]
  /\ UNCHANGED <<mutex, count, received, spurious>>

(* DebufferItem and what follows it.  Without a message the call returns   *)
(* -1, with the mutex.                                                     *)
Debuffer ==
  /\ rpc' = "receive"
  /\ IF queue = <<>>
       THEN rc' = -1 /\ mutex' = "receiver" /\ UNCHANGED <<queue, sent, message, expected>>
       ELSE /\ rc' = 0 /\ message' = Decode(Head(queue)) /\ expected' = Head(sent)
            /\ queue' = Tail(queue) /\ sent' = Tail(sent) /\ UNCHANGED mutex
  /\ UNCHANGED <<sending, count, spurious>>

MUT_Receive == rpc = "receive" /\ mutex = "free" /\ Debuffer   \* mutant: no test

(* tlv_mq_receive takes the mutex, which does not let a thread that holds  *)
(* it in again, and sleeps when there is no message.                       *)
Receive == rpc = "receive" /\ mutex = "free" /\ queue # <<>> /\ Debuffer

MUT_ReceiveWait ==                              \* mutant: sleeps with the mutex
  /\ rpc = "receive" /\ mutex = "free" /\ queue = <<>>
  /\ rpc' = "wait" /\ mutex' = "sleeper"
  /\ UNCHANGED <<queue, sent, sending, count, received, spurious>>

ReceiveWait ==
  /\ rpc = "receive" /\ mutex = "free" /\ queue = <<>>
  /\ rpc' = "wait"
  /\ UNCHANGED <<queue, sent, mutex, sending, count, received, spurious>>

ReceiveWoken == rpc = "woken" /\ mutex = "free" /\ Debuffer

(* pthread_cond_wait may return without a signal.                          *)
SpuriousWakeup ==
  /\ rpc = "wait" /\ rpc' = "woken" /\ spurious' = TRUE
  /\ UNCHANGED <<queue, sent, mutex, sending, count, received>>

Next ==
  \/ \E s \in Senders : SendBegin(s) \/ Send(s)
  \/ Receive \/ ReceiveWait \/ ReceiveWoken \/ SpuriousWakeup

Spec == Init /\ [][Next]_vars

(* The threads run; a mutex that is free again and again is given at last  *)
(* to a sender that asks for it.  Nothing wakes the receiver but a signal. *)
Fairness ==
  /\ \A s \in Senders : SF_vars(Send(s))
  /\ WF_vars(Receive \/ ReceiveWait \/ ReceiveWoken)

FairSpec == Spec /\ Fairness

-----------------------------------------------------------------------------
(* Every variable has its type and the buffer never holds too much.        *)
TypeOK ==
  /\ queue \in Seq((0 .. Byte - 1) \X (0 .. Byte - 1)) /\ Len(queue) <= QueueCap
  /\ sent \in Seq(Numbers) /\ Len(sent) = Len(queue)
  /\ mutex \in {"free", "receiver"} /\ rpc \in {"receive", "wait", "woken"}
  /\ sending \in [Senders -> Numbers \cup {None}] /\ count \in [Senders -> 0 .. MaxSends]
  /\ rc \in {-1, 0} /\ expected \in Numbers \cup {None}
  /\ message \in (0 .. Byte * Byte - 1) \cup {None} /\ spurious \in BOOLEAN

(* The receiver does not sleep on a message, although tlv_mq_send signals  *)
(* before it stores the message and the receiver tests only once.          *)
NoSleepOnMessage == rpc = "wait" => queue = <<>>

(* A number whose low byte is positive in a char comes as it was sent, and *)
(* in the order of the queue.                                              *)
SmallNumbersIntact == rc = 0 /\ expected % Byte < Byte \div 2 => message = expected

(* "return 0: receive an message successfully" (tlv_threads.h).            *)
ReceivedAsSent == rc = 0 => message = expected

(* The receiver left tlv_mq_receive with the mutex: neither it nor a sender*)
(* can take it any more.                                                   *)
Stuck == mutex = "receiver"

(* Only a wakeup nobody asked for makes tlv_mq_receive fail: without one,  *)
(* every -1, and the mutex it keeps, is out of reach.                      *)
FailsOnlySpuriously == ~spurious => rc = 0 /\ ~Stuck

(* A send returns and what it queued is received, unless the mutex was     *)
(* kept.                                                                   *)
SendReturns == \A s \in Senders : sending[s] # None ~> sending[s] = None \/ Stuck
QueueDrains == queue # <<>> ~> queue = <<>> \/ Stuck
=============================================================================
