-------------------------- MODULE MessageQueueProofs --------------------------
(***************************************************************************)
(* The message queue, for any number of senders and any capacity.  The     *)
(* argument: a sleeping receiver has an empty queue, so that the send that *)
(* wakes it has room for its message, and the receiver, which tests only   *)
(* once, finds it: nobody else takes from the queue.                       *)
(***************************************************************************)
EXTENDS MessageQueue, TLAPS

(* What is appended to is not empty.                                       *)
LEMMA AppendNonempty ==
  ASSUME NEW S, NEW q \in Seq(S), NEW e
  PROVE  Append(q, e) # <<>>
<1>1. Len(Append(q, e)) = Len(q) + 1 /\ Len(q) \in Nat
  OBVIOUS
<1>2. QED
  BY <1>1

(* A number of two bytes is cut into two bytes.                            *)
LEMMA EncodeType ==
  ASSUME NEW w \in Numbers
  PROVE  Encode(w) \in (0 .. Byte - 1) \X (0 .. Byte - 1)
<1>1. Byte \in Nat /\ Byte >= 2 /\ w \in Nat /\ w < Byte * Byte
  BY MessageQueueAssumption
<1>2. w % Byte \in 0 .. Byte - 1
  BY <1>1
<1>3. w \div Byte \in 0 .. Byte - 1
  BY <1>1, SMT
<1>4. QED
  BY <1>2, <1>3 DEF Encode

(* What is put together from two bytes is a number of two bytes.           *)
LEMMA DecodeType ==
  ASSUME NEW b \in (0 .. Byte - 1) \X (0 .. Byte - 1)
  PROVE  Decode(b) \in 0 .. Byte * Byte - 1
<1>1. Byte \in Nat /\ Byte >= 2 /\ b[1] \in 0 .. Byte - 1 /\ b[2] \in 0 .. Byte - 1
  BY MessageQueueAssumption
<1>2. b[1] * Byte \in Nat /\ b[1] * Byte <= (Byte - 1) * Byte
  BY <1>1, SMT
<1>3. (Byte - 1) * Byte \in Nat /\ (Byte - 1) * Byte = Byte * Byte - Byte
  BY <1>1, SMT
<1>4. QED
  BY <1>1, <1>2, <1>3 DEF Decode

(* A number comes out of its bytes again when the low one is positive.     *)
LEMMA SmallNumber ==
  ASSUME NEW w \in Numbers, w % Byte < Byte \div 2
  PROVE  Decode(Encode(w)) = w
<1>1. Byte \in Nat /\ Byte >= 2 /\ w \in Nat
  BY MessageQueueAssumption
<1>2. w = Byte * (w \div Byte) + (w % Byte) /\ w \div Byte \in Nat
  BY <1>1, SMT
<1>3. Byte * (w \div Byte) = (w \div Byte) * Byte
  BY <1>1, <1>2, SMT
<1>4. Encode(w)[1] = w \div Byte /\ Encode(w)[2] = w % Byte
  BY DEF Encode
<1>5. ~(w % Byte >= Byte \div 2)
  BY <1>1
<1>6. QED
  BY <1>2, <1>3, <1>4, <1>5 DEF Decode

(* Type correctness: the buffer never holds more than fits, whatever the   *)
(* senders do.                                                             *)
THEOREM TypeCorrect == Spec => []TypeOK
<1>1. Init => TypeOK
  <2> SUFFICES ASSUME Init PROVE TypeOK
    OBVIOUS
  <2> DEFINE Pairs == (0 .. Byte - 1) \X (0 .. Byte - 1)
  <2> HIDE DEF Pairs
  <2>1. queue \in Seq(Pairs) /\ Len(queue) = 0 /\ sent \in Seq(Numbers) /\ Len(sent) = 0
    BY DEF Init
  <2>2. sending \in [Senders -> Numbers \cup {None}] /\ count \in [Senders -> 0 .. MaxSends]
    BY MessageQueueAssumption DEF Init
  <2>3. QueueCap >= 0
    BY MessageQueueAssumption
  <2>4. QED
    BY <2>1, <2>2, <2>3 DEF Init, TypeOK, Pairs
<1>2. TypeOK /\ [Next]_vars => TypeOK'
  <2> SUFFICES ASSUME TypeOK, [Next]_vars PROVE TypeOK'
    OBVIOUS
  <2>0. QueueCap \in Nat \ {0} /\ MaxSends \in Nat
    BY MessageQueueAssumption
  <2>1. ASSUME NEW s \in Senders, SendBegin(s) PROVE TypeOK'
    <3>1. sending' \in [Senders -> Numbers \cup {None}]
      BY <2>1 DEF SendBegin, TypeOK
    <3>2. count' \in [Senders -> 0 .. MaxSends]
      <4>1. count[s] + 1 \in 0 .. MaxSends
        BY <2>0, <2>1 DEF SendBegin, TypeOK
      <4>2. QED
        BY <2>1, <4>1 DEF SendBegin, TypeOK
    <3>3. QED
      BY <2>1, <3>1, <3>2 DEF SendBegin, TypeOK, received
  <2>2. ASSUME NEW s \in Senders, Send(s) PROVE TypeOK'
    <3>1. sending[s] \in Numbers
      BY <2>2 DEF Send, TypeOK
    <3>2. sending' \in [Senders -> Numbers \cup {None}]
      BY <2>2 DEF Send, TypeOK
    <3>3. rpc' \in {"receive", "wait", "woken"}
      BY <2>2 DEF Send, Signalled, TypeOK
    <3>4. /\ queue' \in Seq((0 .. Byte - 1) \X (0 .. Byte - 1)) /\ Len(queue') <= QueueCap
          /\ sent' \in Seq(Numbers) /\ Len(sent') = Len(queue')
      <4>1. CASE Room
        <5> DEFINE Pairs == (0 .. Byte - 1) \X (0 .. Byte - 1)
        <5>1. queue' = Append(queue, Encode(sending[s])) /\ sent' = Append(sent, sending[s])
          BY <2>2, <4>1 DEF Send
        <5>2. Encode(sending[s]) \in Pairs
          BY <3>1, EncodeType
        <5>3. queue \in Seq(Pairs) /\ Len(queue) < QueueCap /\ sent \in Seq(Numbers)
          BY <4>1 DEF TypeOK, Room
        <5> HIDE DEF Pairs
        <5>4. queue' \in Seq(Pairs) /\ Len(queue') = Len(queue) + 1
          BY <5>1, <5>2, <5>3
        <5>5. sent' \in Seq(Numbers) /\ Len(sent') = Len(sent) + 1
          BY <3>1, <5>1, <5>3
        <5>6. QED
          BY <2>0, <5>3, <5>4, <5>5 DEF TypeOK, Pairs
      <4>2. CASE ~Room
        BY <2>2, <4>2 DEF Send, TypeOK
      <4>3. QED
        BY <4>1, <4>2
    <3>5. QED
      BY <2>2, <3>2, <3>3, <3>4 DEF Send, TypeOK, received
  <2>3. CASE Receive \/ ReceiveWoken
    <3>1. Debuffer
      BY <2>3 DEF Receive, ReceiveWoken
    <3>2. CASE queue = <<>>
      BY <3>1, <3>2 DEF Debuffer, TypeOK
    <3>3. CASE queue # <<>>
      <4> DEFINE Pairs == (0 .. Byte - 1) \X (0 .. Byte - 1)
      <4>1. queue \in Seq(Pairs) /\ sent \in Seq(Numbers) /\ Len(sent) = Len(queue)
        BY DEF TypeOK
      <4>2. sent # <<>>
        BY <3>3, <4>1
      <4> HIDE DEF Pairs
      <4>3. Head(queue) \in Pairs /\ Tail(queue) \in Seq(Pairs) /\ Len(Tail(queue)) = Len(queue) - 1
        BY <3>3, <4>1
      <4>4. Head(sent) \in Numbers /\ Tail(sent) \in Seq(Numbers) /\ Len(Tail(sent)) = Len(sent) - 1
        BY <4>1, <4>2
      <4>5. Decode(Head(queue)) \in 0 .. Byte * Byte - 1
        BY <4>3, DecodeType DEF Pairs
      <4>6. Len(queue) \in Nat
        BY <4>1
      <4>7. /\ rpc' = "receive" /\ rc' = 0 /\ mutex' = mutex /\ UNCHANGED <<sending, count, spurious>>
            /\ message' = Decode(Head(queue)) /\ expected' = Head(sent)
            /\ queue' = Tail(queue) /\ sent' = Tail(sent)
        BY <3>1, <3>3 DEF Debuffer
      <4>8. queue' \in Seq(Pairs) /\ Len(queue') <= QueueCap /\ Len(sent') = Len(queue')
        BY <2>0, <4>1, <4>3, <4>4, <4>6, <4>7 DEF TypeOK
      <4>9. QED
        BY <4>4, <4>5, <4>7, <4>8 DEF TypeOK, Pairs
    <3>4. QED
      BY <3>2, <3>3
  <2>4. CASE ReceiveWait \/ SpuriousWakeup \/ UNCHANGED vars
    BY <2>4 DEF ReceiveWait, SpuriousWakeup, vars, received, TypeOK
  <2>5. QED
    BY <2>1, <2>2, <2>3, <2>4 DEF Next
<1>3. QED
  BY <1>1, <1>2, PTL DEF Spec

(* What waits in the buffer are the bytes of what was sent, in its order;  *)
(* what came last is what its bytes give.                                  *)
BytesInv ==
  /\ \A i \in 1 .. Len(queue) : queue[i] = Encode(sent[i])
  /\ \/ message = None /\ expected = None
     \/ expected \in Numbers /\ message = Decode(Encode(expected))

(* A number whose low byte is positive in a char comes as it was sent.     *)
THEOREM SmallNumbersIntactCorrect == Spec => []SmallNumbersIntact
<1>1. Init => BytesInv
  BY DEF Init, BytesInv
<1>2. TypeOK /\ BytesInv /\ [Next]_vars => BytesInv'
  <2> SUFFICES ASSUME TypeOK, BytesInv, [Next]_vars PROVE BytesInv'
    OBVIOUS
  <2> DEFINE Pairs == (0 .. Byte - 1) \X (0 .. Byte - 1)
  <2>0. queue \in Seq(Pairs) /\ sent \in Seq(Numbers) /\ Len(sent) = Len(queue)
    BY DEF TypeOK
  <2> HIDE DEF Pairs
  <2>1. ASSUME NEW s \in Senders, SendBegin(s) PROVE BytesInv'
    BY <2>1 DEF SendBegin, BytesInv, received
  <2>2. ASSUME NEW s \in Senders, Send(s) PROVE BytesInv'
    <3>1. CASE Room
      <4>1. queue' = Append(queue, Encode(sending[s])) /\ sent' = Append(sent, sending[s])
        BY <2>2, <3>1 DEF Send
      <4>2. sending[s] \in Numbers
        BY <2>2 DEF Send, TypeOK
      <4>3. Encode(sending[s]) \in Pairs
        BY <4>2, EncodeType DEF Pairs
      <4>4. Len(queue') = Len(queue) + 1
        BY <2>0, <4>1, <4>3
      <4>5. ASSUME NEW i \in 1 .. Len(queue') PROVE queue'[i] = Encode(sent'[i])
        <5>1. CASE i <= Len(queue)
          <6>1. queue'[i] = queue[i] /\ sent'[i] = sent[i] /\ i \in 1 .. Len(queue)
            BY <2>0, <4>1, <4>2, <4>3, <4>4, <5>1
          <6>2. QED
            BY <6>1 DEF BytesInv
        <5>2. CASE i = Len(queue) + 1
          BY <2>0, <4>1, <4>2, <4>3, <5>2
        <5>3. QED
          BY <2>0, <4>4, <5>1, <5>2
      <4>6. QED
        BY <2>2, <4>5 DEF Send, BytesInv, received
    <3>2. CASE ~Room
      BY <2>2, <3>2 DEF Send, BytesInv, received
    <3>3. QED
      BY <3>1, <3>2
  <2>3. CASE Receive \/ ReceiveWoken
    <3>1. Debuffer
      BY <2>3 DEF Receive, ReceiveWoken
    <3>2. CASE queue = <<>>
      BY <3>1, <3>2 DEF Debuffer, BytesInv
    <3>3. CASE queue # <<>>
      <4>1. sent # <<>> /\ Len(queue) \in Nat \ {0}
        BY <2>0, <3>3
      <4>2. Head(queue) = queue[1] /\ Head(sent) = sent[1] /\ 1 \in 1 .. Len(queue)
        BY <2>0, <3>3, <4>1
      <4>3. sent[1] \in Numbers
        BY <2>0, <4>1
      <4>4. message' = Decode(Encode(expected')) /\ expected' \in Numbers
        BY <3>1, <3>3, <4>2, <4>3 DEF Debuffer, BytesInv
      <4>5. ASSUME NEW i \in 1 .. Len(queue') PROVE queue'[i] = Encode(sent'[i])
        <5>1. queue' = Tail(queue) /\ sent' = Tail(sent)
          BY <3>1, <3>3 DEF Debuffer
        <5>2. Len(queue') = Len(queue) - 1
          BY <2>0, <3>3, <5>1
        <5>3. i + 1 \in 1 .. Len(queue)
          BY <4>1, <5>2
        <5>4. queue'[i] = queue[i + 1] /\ sent'[i] = sent[i + 1]
          BY <2>0, <3>3, <4>1, <5>1, <5>2
        <5>5. QED
          BY <5>3, <5>4 DEF BytesInv
      <4>6. QED
        BY <4>4, <4>5 DEF BytesInv
    <3>4. QED
      BY <3>2, <3>3
  <2>4. CASE ReceiveWait \/ SpuriousWakeup \/ UNCHANGED vars
    BY <2>4 DEF ReceiveWait, SpuriousWakeup, vars, received, BytesInv
  <2>5. QED
    BY <2>1, <2>2, <2>3, <2>4 DEF Next
<1>3. BytesInv => SmallNumbersIntact
  BY SmallNumber DEF BytesInv, SmallNumbersIntact
<1>4. QED
  BY <1>1, <1>2, <1>3, TypeCorrect, PTL DEF Spec

(* What a receiver that was woken by a signal finds.                       *)
SignalledInv ==
  ~spurious => rc = 0 /\ mutex = "free" /\ (rpc = "woken" => queue # <<>>)

(* The receiver never sleeps on a message.                                 *)
THEOREM NoSleepOnMessageCorrect == Spec => []NoSleepOnMessage
<1>1. Init => NoSleepOnMessage
  BY DEF Init, NoSleepOnMessage
<1>2. NoSleepOnMessage /\ [Next]_vars => NoSleepOnMessage'
  <2> SUFFICES ASSUME NoSleepOnMessage, [Next]_vars PROVE NoSleepOnMessage'
    OBVIOUS
  <2> USE DEF NoSleepOnMessage
  <2>1. ASSUME NEW s \in Senders, SendBegin(s) PROVE NoSleepOnMessage'
    BY <2>1 DEF SendBegin
  <2>2. ASSUME NEW s \in Senders, Send(s) PROVE NoSleepOnMessage'
    <3>1. rpc' # "wait"
      BY <2>2 DEF Send, Signalled
    <3>2. QED
      BY <3>1
  <2>3. CASE Receive \/ ReceiveWoken
    <3>1. rpc' = "receive"
      BY <2>3 DEF Receive, ReceiveWoken, Debuffer
    <3>2. QED
      BY <3>1
  <2>4. CASE ReceiveWait \/ SpuriousWakeup \/ UNCHANGED vars
    BY <2>4 DEF ReceiveWait, SpuriousWakeup, vars
  <2>5. QED
    BY <2>1, <2>2, <2>3, <2>4 DEF Next
<1>3. QED
  BY <1>1, <1>2, PTL DEF Spec

(* As long as pthread_cond_wait returns only when signalled, tlv_mq_receive*)
(* never returns -1 and never keeps the mutex.                             *)
THEOREM FailsOnlySpuriouslyCorrect == Spec => []FailsOnlySpuriously
<1>1. Init => SignalledInv
  BY DEF Init, SignalledInv
<1>2. TypeOK /\ NoSleepOnMessage /\ SignalledInv /\ [Next]_vars => SignalledInv'
  <2> SUFFICES ASSUME TypeOK, NoSleepOnMessage, SignalledInv, [Next]_vars, ~spurious' PROVE SignalledInv'
    BY DEF SignalledInv
  <2>0. ~spurious
    BY DEF Next, SendBegin, Send, Receive, ReceiveWoken, Debuffer, ReceiveWait, SpuriousWakeup, vars
  <2> USE DEF SignalledInv
  <2>1. ASSUME NEW s \in Senders, SendBegin(s) PROVE SignalledInv'
    BY <2>0, <2>1 DEF SendBegin, received
  <2>2. ASSUME NEW s \in Senders, Send(s) PROVE SignalledInv'
    <3>1. rc' = 0 /\ mutex' = "free"
      BY <2>0, <2>2 DEF Send, received
    <3>2. ASSUME rpc' = "woken" PROVE queue' # <<>>
      <4>1. CASE rpc = "woken"
        <5>1. queue # <<>>
          BY <2>0, <4>1
        <5>2. queue' = queue \/ queue' = Append(queue, Encode(sending[s]))
          BY <2>2 DEF Send
        <5>3. Append(queue, Encode(sending[s])) # <<>>
          BY AppendNonempty DEF TypeOK
        <5>4. QED
          BY <5>1, <5>2, <5>3
      <4>2. CASE rpc = "wait"
        <5>1. queue = <<>>
          BY <4>2 DEF NoSleepOnMessage
        <5>2. Room
          BY <5>1, MessageQueueAssumption DEF Room
        <5>3. queue' = Append(queue, Encode(sending[s]))
          BY <2>2, <5>2 DEF Send
        <5>4. QED
          BY <5>1, <5>3
      <4>3. QED
        BY <2>2, <3>2, <4>1, <4>2 DEF Send, Signalled
    <3>3. QED
      BY <3>1, <3>2
  <2>3. CASE Receive \/ ReceiveWoken
    <3>1. queue # <<>> /\ Debuffer
      BY <2>0, <2>3 DEF Receive, ReceiveWoken
    <3>2. rc' = 0 /\ mutex' = mutex /\ rpc' = "receive"
      BY <3>1 DEF Debuffer
    <3>3. QED
      BY <2>0, <3>2
  <2>4. CASE ReceiveWait \/ SpuriousWakeup \/ UNCHANGED vars
    BY <2>0, <2>4 DEF ReceiveWait, SpuriousWakeup, vars, received
  <2>5. QED
    BY <2>1, <2>2, <2>3, <2>4 DEF Next
<1>3. SignalledInv => FailsOnlySpuriously
  BY DEF SignalledInv, FailsOnlySpuriously, Stuck
<1>4. QED
  BY <1>1, <1>2, <1>3, TypeCorrect, NoSleepOnMessageCorrect, PTL DEF Spec
=============================================================================
