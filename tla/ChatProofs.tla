----------------------------- MODULE ChatProofs -----------------------------
(***************************************************************************)
(* The conversation of a client with a server, for every length of reads,  *)
(* of buffers and of messages: IInv and EchoInv of module Chat are         *)
(* inductive, the greeting is what a client reads first, and what comes    *)
(* back to it is what it sent.                                             *)
(***************************************************************************)
EXTENDS Chat, FiniteSetTheorems, SequenceTheorems, TLAPS

(* A part of a sequence of bytes is one, and its bytes are known. *)
LEMMA PartOfBytes ==
    ASSUME NEW s \in Seq(Int), NEW a \in 1..(Len(s) + 1), NEW b \in 0..Len(s)
    PROVE  /\ SubSeq(s, a, b) \in Seq(Int)
           /\ Len(SubSeq(s, a, b)) = IF a <= b THEN b - a + 1 ELSE 0
           /\ \A i \in 1..(b - a + 1) : SubSeq(s, a, b)[i] = s[a + i - 1]
<1>1. a \in Int /\ b \in Int /\ \A i \in a..b : s[i] \in Int
  OBVIOUS
<1> QED
  BY <1>1, SubSeqProperties

(* Appending keeps what was there. *)
LEMMA BytesExtended ==
    ASSUME NEW s \in Seq(Int), NEW t \in Seq(Int)
    PROVE  /\ s \o t \in Seq(Int)
           /\ Len(s \o t) >= Len(s)
           /\ \A i \in 1..Len(s) : (s \o t)[i] = s[i]
  OBVIOUS

(* The number of messages is a number: the bytes of a sequence are         *)
(* finitely many.                                                          *)
LEMMA MessagesNat ==
    ASSUME NEW s \in Seq(Int)
    PROVE  Messages(s) \in Nat
<1>1. IsFiniteSet(1..Len(s))
  BY FS_Interval
<1>2. IsFiniteSet({s[i] : i \in 1..Len(s)})
  <2> DEFINE T == {s[i] : i \in 1..Len(s)}
  <2>1. s \in [1..Len(s) -> T] /\ \A t \in T : \E i \in 1..Len(s) : s[i] = t
    OBVIOUS
  <2>2. s \in Surjection(1..Len(s), T)
    BY <2>1 DEF Surjection
  <2> QED
    BY <1>1, <2>2, FS_Surjection
<1>3. ToSet(s) = {s[i] : i \in 1..Len(s)}
  BY DEF ToSet
<1> QED
  BY <1>2, <1>3, FS_Difference, FS_CardinalityType DEF Messages

(* The letters a client sends are bytes. *)
LEMMA LettersBytes ==
    ASSUME BytesOK, NEW count \in Nat
    PROVE  Letters(count) \in Seq(Int) /\ Append(Letters(count), Zero) \in Seq(Int)
<1>1. Messages(sent) \in Nat
  BY MessagesNat DEF BytesOK
<1>2. Letters(count) \in Seq(Int)
  BY <1>1 DEF Letters
<1> QED
  BY <1>2 DEF Zero

(* Every text the server may read from its buffer is a sequence of bytes.  *)
LEMMA TextsBytes ==
    ASSUME BytesOK, NEW bytes \in Seq(Int), NEW text \in Texts(bytes)
    PROVE  text \in Seq(Int)
<1>1. ASSUME NEW i \in 1..Len(bytes) PROVE SubSeq(bytes, 1, i - 1) \in Seq(Int)
  BY PartOfBytes
<1>2. ASSUME NEW b \in Beyond PROVE Append(bytes, b) \in Seq(Int)
  <2>1. b \in Int
    BY <1>2, MessagesNat DEF Beyond, Other, BytesOK
  <2> QED
    BY <2>1
<1> QED
  BY <1>1, <1>2 DEF Texts

(* Nothing was said in the initial state. *)
LEMMA InitIInv == Init => IInv
<1> SUFFICES ASSUME Init PROVE IInv
  OBVIOUS
<1>1. <<>> \in Seq(Int) /\ Len(<<>>) = 0
  OBVIOUS
<1> QED
  BY <1>1 DEF Init, IInv, BytesOK, Ungreeted, QuietBefore, WaitsForGreeting, GreetedWhole,
              StartsWithGreeting

(* Greet: the greeting goes to where nothing was said before. *)
LEMMA GreetIInv == IInv /\ Greet => IInv'
<1> SUFFICES ASSUME IInv, Greet PROVE IInv'
  OBVIOUS
<1> USE DEF IInv, Greet
<1>1. MESSAGE \in Seq(Int) /\ Len(MESSAGE) = 2 /\ \A i \in 1..2 : MESSAGE[i] = Hello
  BY DEF MESSAGE, Hello
<1>2. down = <<>> /\ heard = <<>> /\ up = <<>>
  BY DEF QuietBefore, Ungreeted
<1>3. <<>> \o MESSAGE = MESSAGE
  BY <1>1, ConcatEmptySeq
<1>4. BytesOK' /\ (QuietBefore /\ WaitsForGreeting)'
  BY <1>1, <1>2, <1>3 DEF BytesOK, QuietBefore, WaitsForGreeting, Ungreeted
<1>5. CASE connection = "open"
  <2>1. down' = MESSAGE /\ heard' = <<>>
    BY <1>2, <1>3, <1>5
  <2> QED
    BY <1>1, <1>4, <2>1 DEF GreetedWhole, StartsWithGreeting
<1>6. CASE connection # "open"
  BY <1>4, <1>6 DEF GreetedWhole, StartsWithGreeting
<1> QED
  BY <1>5, <1>6

(* Steps that end the connection, and lose what was on its way. *)
LEMMA EndsIInv == IInv /\ (ListenerFails \/ ServerStops \/ ResetByPeer) => IInv'
<1> SUFFICES ASSUME IInv, ListenerFails \/ ServerStops \/ ResetByPeer PROVE IInv'
  OBVIOUS
<1>1. /\ connection' = "reset" /\ connection = "open" /\ down' = <<>> /\ up' = <<>>
      /\ UNCHANGED <<client, server, place, sent, heard>>
      /\ Ungreeted' => Ungreeted
  BY DEF ListenerFails, ServerStops, ResetByPeer, Ungreeted
<1>2. <<>> \in Seq(Int) /\ Len(<<>>) = 0
  OBVIOUS
<1>3. BytesOK'
  BY <1>1, <1>2 DEF IInv, BytesOK
<1>4. QuietBefore' /\ WaitsForGreeting'
  BY <1>1 DEF IInv, QuietBefore, WaitsForGreeting
<1>5. GreetedWhole' /\ StartsWithGreeting'
  BY <1>1, <1>2 DEF IInv, GreetedWhole, StartsWithGreeting
<1> QED
  BY <1>3, <1>4, <1>5 DEF IInv

(* iocp_conn_readcb of the server: it has bytes to read, so the greeting   *)
(* was written, and the answer comes after it.                             *)
LEMMA ServerReadsIInv ==
    ASSUME IInv, NEW k \in 1..MAX_TO_READ_EVER, iocp_conn_readcb(k)
    PROVE  IInv'
<1> USE ChatAssumption
<1>1. /\ k \in Nat /\ k >= 1 /\ k <= Len(up)
      /\ up \in Seq(Int) /\ down \in Seq(Int) /\ heard \in Seq(Int) /\ sent \in Seq(Int)
  BY DEF IInv, BytesOK, iocp_conn_readcb
<1>2. up' \in Seq(Int)
  <2>1. up' = SubSeq(up, k + 1, Len(up)) /\ k + 1 \in 1..(Len(up) + 1) /\ Len(up) \in 0..Len(up)
    BY <1>1 DEF iocp_conn_readcb
  <2> QED
    BY <1>1, <2>1, PartOfBytes
<1>3. PICK text \in Texts(SubSeq(up, 1, k)) : down' = down \o <<Frame>> \o text \o <<Frame, Zero>>
  BY DEF iocp_conn_readcb
<1>4. text \in Seq(Int)
  <2>1. SubSeq(up, 1, k) \in Seq(Int)
    BY <1>1, PartOfBytes
  <2> QED
    BY <2>1, TextsBytes DEF IInv
<1>5. <<Frame>> \in Seq(Int) /\ <<Frame, Zero>> \in Seq(Int)
  BY DEF Frame, Zero
<1> DEFINE framed == down \o <<Frame>>
<1> DEFINE answer == framed \o text
<1>6. /\ framed \in Seq(Int) /\ Len(framed) >= Len(down)
      /\ \A i \in 1..Len(down) : framed[i] = down[i]
  BY <1>1, <1>5, BytesExtended
<1> HIDE DEF framed
<1>7. /\ answer \in Seq(Int) /\ Len(answer) >= Len(framed)
      /\ \A i \in 1..Len(framed) : answer[i] = framed[i]
  BY <1>4, <1>6, BytesExtended
<1>8. down' = answer \o <<Frame, Zero>>
  BY <1>3 DEF framed
<1> HIDE DEF answer
<1>9. /\ down' \in Seq(Int) /\ Len(down') >= Len(answer)
       /\ \A i \in 1..Len(answer) : down'[i] = answer[i]
  BY <1>5, <1>7, <1>8, BytesExtended
<1>10. down' \in Seq(Int) /\ Len(down') >= Len(down) /\ \A i \in 1..Len(down) : down'[i] = down[i]
  <2>1. /\ Len(down) \in Nat /\ Len(framed) \in Nat /\ Len(answer) \in Nat /\ Len(down') \in Nat
        /\ Len(down) <= Len(framed) /\ Len(framed) <= Len(answer)
    BY <1>1, <1>6, <1>7, <1>9, SMTT(30)
  <2>2. \A i \in 1..Len(down) : i \in 1..Len(framed) /\ i \in 1..Len(answer)
    BY <2>1
  <2> QED
    BY <1>6, <1>7, <1>9, <2>1, <2>2
<1>11. accepted = "greeted"
  <2>1. up # <<>>
    BY <1>1
  <2> QED
    BY <2>1 DEF IInv, QuietBefore, Ungreeted, iocp_conn_readcb
<1>12. Len(heard) + Len(down) >= Len(MESSAGE) /\ Len(MESSAGE) = 2
  BY <1>11 DEF IInv, GreetedWhole, iocp_conn_readcb, MESSAGE
<1>13. BytesOK'
  BY <1>1, <1>2, <1>10 DEF BytesOK, iocp_conn_readcb
<1>14. QuietBefore' /\ WaitsForGreeting'
  BY <1>11 DEF IInv, QuietBefore, WaitsForGreeting, Ungreeted, iocp_conn_readcb
<1>15. GreetedWhole'
  BY <1>1, <1>10, <1>12 DEF GreetedWhole, iocp_conn_readcb
<1>16. StartsWithGreeting'
  <2>1. heard' = heard
    BY DEF iocp_conn_readcb
  <2>2. ASSUME NEW i \in 1..Len(down'), Len(heard) + i <= 2 PROVE i \in 1..Len(down)
    BY <1>1, <1>10, <1>12, <2>2
  <2> QED
    BY <1>10, <1>12, <2>1, <2>2 DEF IInv, StartsWithGreeting
<1> QED
  BY <1>13, <1>14, <1>15, <1>16 DEF IInv

(* Steps of the server that change no byte. *)
LEMMA ServerMovesIInv ==
    ASSUME IInv, Accept \/ iocp_conn_eventcb \/ conn_writecb \/ conn_eventcb
    PROVE  IInv'
<1>1. /\ UNCHANGED <<client, server, connection, place, down, sent, heard>>
      /\ up' = up \/ up' = <<>>
      /\ Ungreeted' => Ungreeted
      /\ accepted' # "greeted"
  BY DEF Accept, iocp_conn_eventcb, conn_writecb, conn_eventcb, Ungreeted
<1>2. BytesOK'
  <2>1. up \in Seq(Int) /\ <<>> \in Seq(Int)
    BY DEF IInv, BytesOK
  <2>2. up' \in Seq(Int)
    BY <1>1, <2>1, Zenon
  <2> QED
    BY <1>1, <2>2 DEF IInv, BytesOK
<1>3. place # "connect"
  BY DEF Accept, iocp_conn_eventcb, conn_writecb, conn_eventcb, IInv, WaitsForGreeting
<1>4. QuietBefore' /\ WaitsForGreeting'
  BY <1>1, <1>3 DEF IInv, QuietBefore, WaitsForGreeting
<1>5. GreetedWhole' /\ StartsWithGreeting'
  BY <1>1 DEF IInv, GreetedWhole, StartsWithGreeting
<1> QED
  BY <1>2, <1>4, <1>5 DEF IInv

(* Reading moves bytes from the connection to what was heard. *)
LEMMA TakesBytes ==
    ASSUME BytesOK, StartsWithGreeting, NEW most \in Nat, Takes(most)
    PROVE  /\ heard' \in Seq(Int) /\ down' \in Seq(Int)
           /\ Len(heard') + Len(down') = Len(heard) + Len(down)
           /\ StartsWithGreeting'
           /\ down # <<>>
<1>1. PICK k \in 1..most : /\ k <= Len(down)
                           /\ heard' = heard \o SubSeq(down, 1, k)
                           /\ down' = SubSeq(down, k + 1, Len(down))
  BY DEF Takes
<1>2. k \in Nat /\ k >= 1 /\ heard \in Seq(Int) /\ down \in Seq(Int)
  BY DEF BytesOK
<1>3. /\ SubSeq(down, 1, k) \in Seq(Int) /\ Len(SubSeq(down, 1, k)) = k
      /\ \A i \in 1..k : SubSeq(down, 1, k)[i] = down[i]
  <2>1. 1 \in 1..(Len(down) + 1) /\ k \in 0..Len(down)
    BY <1>1, <1>2
  <2>2. /\ SubSeq(down, 1, k) \in Seq(Int)
        /\ Len(SubSeq(down, 1, k)) = IF 1 <= k THEN k - 1 + 1 ELSE 0
        /\ \A i \in 1..(k - 1 + 1) : SubSeq(down, 1, k)[i] = down[1 + i - 1]
    BY <1>2, <2>1, PartOfBytes
  <2> QED
    BY <1>2, <2>2
<1>4. /\ down' \in Seq(Int) /\ Len(down') = Len(down) - k
      /\ \A i \in 1..(Len(down) - k) : down'[i] = down[k + i]
  <2>1. k + 1 \in 1..(Len(down) + 1) /\ Len(down) \in 0..Len(down)
    BY <1>1, <1>2
  <2>2. /\ down' \in Seq(Int)
        /\ Len(down') = IF k + 1 <= Len(down) THEN Len(down) - (k + 1) + 1 ELSE 0
        /\ \A i \in 1..(Len(down) - (k + 1) + 1) : down'[i] = down[k + 1 + i - 1]
    BY <1>1, <1>2, <2>1, PartOfBytes, SMTT(30)
  <2> QED
    BY <1>1, <1>2, <2>2
<1> DEFINE part == SubSeq(down, 1, k)
<1> HIDE DEF part
<1>5. /\ heard' \in Seq(Int) /\ Len(heard') = Len(heard) + k
      /\ \A i \in 1..(Len(heard) + k) :
             heard'[i] = IF i <= Len(heard) THEN heard[i] ELSE down[i - Len(heard)]
  <2>1. heard' = heard \o part /\ part \in Seq(Int) /\ Len(part) = k /\ \A i \in 1..k : part[i] = down[i]
    BY <1>1, <1>3 DEF part
  <2>2. /\ heard \o part \in Seq(Int) /\ Len(heard \o part) = Len(heard) + k
        /\ \A i \in 1..(Len(heard) + k) :
               (heard \o part)[i] = IF i <= Len(heard) THEN heard[i] ELSE part[i - Len(heard)]
    BY <1>2, <2>1, ConcatProperties
  <2>3. ASSUME NEW i \in 1..(Len(heard) + k), ~(i <= Len(heard)) PROVE i - Len(heard) \in 1..k
    BY <1>2, <2>3
  <2> QED
    BY <2>1, <2>2, <2>3
<1>6. Len(MESSAGE) = 2
  BY DEF MESSAGE
<1>7. ASSUME NEW i \in 1..Len(heard'), i <= 2 PROVE heard'[i] = Hello
  <2>1. CASE i <= Len(heard)
    <3>1. i \in 1..Len(heard) /\ i \in 1..(Len(heard) + k)
      BY <1>2, <1>5, <2>1
    <3>2. heard'[i] = heard[i]
      BY <1>5, <2>1, <3>1
    <3> QED
      BY <1>2, <1>6, <1>7, <3>1, <3>2 DEF StartsWithGreeting
  <2>2. CASE ~(i <= Len(heard))
    <3>1. i - Len(heard) \in 1..Len(down) /\ Len(heard) + (i - Len(heard)) <= 2
      BY <1>1, <1>2, <1>5, <1>7, <2>2
    <3> QED
      BY <1>2, <1>5, <1>6, <2>2, <3>1 DEF StartsWithGreeting
  <2> QED
    BY <2>1, <2>2
<1>8. ASSUME NEW i \in 1..Len(down'), Len(heard') + i <= 2 PROVE down'[i] = Hello
  <2>1. k + i \in 1..Len(down) /\ Len(heard) + (k + i) <= 2 /\ i \in 1..(Len(down) - k)
    BY <1>1, <1>2, <1>4, <1>5, <1>8
  <2> QED
    BY <1>4, <1>6, <2>1 DEF StartsWithGreeting
<1>9. StartsWithGreeting'
  BY <1>6, <1>7, <1>8 DEF StartsWithGreeting
<1>10. Len(heard') + Len(down') = Len(heard) + Len(down) /\ down # <<>>
  <2>1. Len(down) \in Nat /\ Len(heard) \in Nat /\ Len(down) >= 1
    BY <1>1, <1>2
  <2>2. Len(heard') = Len(heard) + k /\ Len(down') = Len(down) - k
    BY <1>4, <1>5
  <2>3. down # <<>>
    BY <2>1
  <2> QED
    BY <1>2, <2>1, <2>2, <2>3
<1> QED
  BY <1>4, <1>5, <1>9, <1>10

(* What a client sends reaches an open connection only. *)
LEMMA SendsBytes ==
    ASSUME BytesOK, NEW text \in Seq(Int), Sends(text)
    PROVE  /\ up' \in Seq(Int) /\ sent' \in Seq(Int)
           /\ connection # "open" => up' = up
<1>1. up \in Seq(Int) /\ sent \in Seq(Int)
  BY DEF BytesOK
<1>2. up \o text \in Seq(Int) /\ sent \o text \in Seq(Int)
  BY <1>1
<1> QED
  BY <1>1, <1>2 DEF Sends

(* The connect of either client. *)
LEMMA ConnectIInv ==
    ASSUME IInv, NEW c \in {"open", "refused"}, NEW next \in {"loop", "greeting"},
           Connect(c, next), client = "TestClient1" => next = "greeting"
    PROVE  IInv'
<1>1. BytesOK' /\ QuietBefore' /\ WaitsForGreeting'
  BY DEF IInv, Connect, BytesOK, QuietBefore, WaitsForGreeting, Ungreeted
<1>2. accepted' = "no"
  BY DEF IInv, Connect, WaitsForGreeting
<1>3. GreetedWhole' /\ StartsWithGreeting'
  BY <1>2 DEF IInv, Connect, GreetedWhole, StartsWithGreeting
<1> QED
  BY <1>1, <1>3 DEF IInv

(* A recv of TestClient1: before the greeting it ends only when the        *)
(* connection does.                                                        *)
LEMMA RecvIInv ==
    ASSUME IInv, NEW from \in {"greeting", "announced", "answer"},
           NEW to \in {"attention", "talk"}, Recv(from, to)
    PROVE  IInv'
<1> USE ChatAssumption
<1>1. UNCHANGED <<client, server, connection, accepted, up, sent>> /\ place = from /\ place' = to
  BY DEF Recv
<1>2. CASE Takes(RecvBuf)
  <2>1. /\ heard' \in Seq(Int) /\ down' \in Seq(Int)
        /\ Len(heard') + Len(down') = Len(heard) + Len(down)
        /\ StartsWithGreeting'
        /\ down # <<>>
    BY <1>2, TakesBytes DEF IInv
  <2>2. ~Ungreeted
    BY <2>1 DEF IInv, QuietBefore
  <2>3. BytesOK' /\ QuietBefore' /\ WaitsForGreeting'
    BY <1>1, <2>1, <2>2 DEF IInv, BytesOK, QuietBefore, WaitsForGreeting, Ungreeted
  <2>4. GreetedWhole'
    BY <1>1, <2>1 DEF IInv, GreetedWhole
  <2> QED
    BY <2>1, <2>3, <2>4 DEF IInv
<1>3. CASE AtEnd /\ UNCHANGED <<down, heard>>
  <2>1. connection # "open" \/ ~Ungreeted
    BY <1>3 DEF AtEnd, Ungreeted
  <2>2. BytesOK' /\ QuietBefore' /\ GreetedWhole' /\ StartsWithGreeting'
    BY <1>1, <1>3 DEF IInv, BytesOK, QuietBefore, Ungreeted, GreetedWhole, StartsWithGreeting
  <2>3. WaitsForGreeting'
    BY <1>1, <2>1 DEF IInv, WaitsForGreeting, Ungreeted
  <2> QED
    BY <2>2, <2>3 DEF IInv
<1> QED
  BY <1>2, <1>3 DEF Recv

(* TestClient1 sends after its first recv, so not on a connection that is  *)
(* open and was not greeted.                                               *)
LEMMA TestClientSendsIInv ==
    ASSUME IInv, SendAttention \/ SendLine
    PROVE  IInv'
<1> USE ChatAssumption
<1>1. PICK text \in Seq(Int) : Sends(text)
  <2>1. CASE SendAttention
    BY <2>1, LettersBytes DEF SendAttention, IInv
  <2>2. CASE SendLine
    <3>1. PICK count \in 0..MaxTalk : Sends(Append(Letters(count), Zero))
      BY <2>2 DEF SendLine
    <3>2. count \in Nat
      OBVIOUS
    <3> QED
      BY <3>1, <3>2, LettersBytes DEF IInv
  <2> QED
    BY <2>1, <2>2
<1>2. /\ client = "TestClient1" /\ place \in {"attention", "talk"}
      /\ place' \in {"announced", "answer"}
      /\ UNCHANGED <<client, server, connection, accepted, down, heard>>
  BY DEF SendAttention, SendLine
<1>3. up' \in Seq(Int) /\ sent' \in Seq(Int) /\ (connection # "open" => up' = up)
  BY <1>1, SendsBytes DEF IInv
<1>4. Ungreeted => connection # "open"
  BY <1>2 DEF IInv, WaitsForGreeting
<1>5. BytesOK'
  BY <1>2, <1>3 DEF IInv, BytesOK
<1>6. QuietBefore' /\ WaitsForGreeting'
  BY <1>2, <1>3, <1>4 DEF IInv, QuietBefore, WaitsForGreeting, Ungreeted
<1>7. GreetedWhole' /\ StartsWithGreeting'
  BY <1>2 DEF IInv, GreetedWhole, StartsWithGreeting
<1> QED
  BY <1>5, <1>6, <1>7 DEF IInv

(* IOCPClient writes from the callback that has just read. *)
LEMMA ClientReadsIInv == IInv /\ ClientReads => IInv'
<1> SUFFICES ASSUME IInv, ClientReads PROVE IInv'
  OBVIOUS
<1> USE ChatAssumption
<1>1. UNCHANGED <<client, server, connection, accepted, place>>
  BY DEF ClientReads
<1>2. /\ heard' \in Seq(Int) /\ down' \in Seq(Int)
      /\ Len(heard') + Len(down') = Len(heard) + Len(down)
      /\ StartsWithGreeting'
      /\ down # <<>>
  <2>1. Len(down) \in Nat
    BY DEF IInv, BytesOK
  <2> QED
    BY <2>1, TakesBytes DEF IInv, ClientReads
<1>3. up' \in Seq(Int) /\ sent' \in Seq(Int)
  <2>1. Letters(MAX_TO_READ_EVER) \in Seq(Int)
    BY LettersBytes DEF IInv
  <2> QED
    BY <2>1, SendsBytes DEF IInv, ClientReads, WriteData
<1>4. ~Ungreeted
  BY <1>2 DEF IInv, QuietBefore
<1>5. BytesOK' /\ QuietBefore' /\ WaitsForGreeting'
  BY <1>1, <1>2, <1>3, <1>4 DEF IInv, BytesOK, QuietBefore, WaitsForGreeting, Ungreeted
<1>6. GreetedWhole'
  BY <1>1, <1>2 DEF IInv, GreetedWhole
<1> QED
  BY <1>2, <1>5, <1>6 DEF IInv

(* Steps of a client that change no byte. *)
LEMMA ClientMovesIInv ==
    ASSUME IInv, closesocket \/ ClientEOF \/ ClientError \/ DispatchReturns
    PROVE  IInv'
<1>1. /\ UNCHANGED <<client, server, connection, accepted, up, down, sent, heard>>
      /\ place' # "connect"
      /\ client = "TestClient1" => place = "talk"
  BY DEF closesocket, ClientEOF, ClientError, DispatchReturns
<1> QED
  BY <1>1 DEF IInv, BytesOK, QuietBefore, WaitsForGreeting, Ungreeted, GreetedWhole,
              StartsWithGreeting

(* Every step of the server, of the client and of the network preserves    *)
(* the invariant.                                                          *)
LEMMA NextIInv == IInv /\ [Next]_vars => IInv'
<1> SUFFICES ASSUME IInv, [Next]_vars PROVE IInv'
  OBVIOUS
<1>1. CASE Server
  <2>1. CASE \E k \in 1..MAX_TO_READ_EVER : iocp_conn_readcb(k)
    BY <2>1, ServerReadsIInv
  <2> QED
    BY <1>1, <2>1, GreetIInv, EndsIInv, ServerMovesIInv DEF Server
<1>2. CASE RunTestClient1
  BY <1>2, ConnectIInv DEF RunTestClient1
<1>3. CASE TestClient1
  BY <1>3, RecvIInv, TestClientSendsIInv, ClientMovesIInv DEF TestClient1
<1>4. CASE IOCPClient
  <2>1. CASE Run
    BY <2>1, ConnectIInv DEF Run
  <2> QED
    BY <1>4, <2>1, ClientReadsIInv, ClientMovesIInv DEF IOCPClient
<1>5. CASE ServerStops \/ ResetByPeer
  BY <1>5, EndsIInv
<1>6. CASE UNCHANGED vars
  BY <1>6 DEF vars, IInv, BytesOK, QuietBefore, WaitsForGreeting, Ungreeted, GreetedWhole,
              StartsWithGreeting
<1> QED
  BY <1>1, <1>2, <1>3, <1>4, <1>5, <1>6 DEF Next, Client

(* The invariant implies what a client relies on. *)
LEMMA IInvGreeting == IInv => GreetingFirst
<1> SUFFICES ASSUME IInv, NEW i \in 1..Len(heard \o down), i <= Len(MESSAGE)
             PROVE  (heard \o down)[i] = Hello
  BY DEF GreetingFirst
<1>1. heard \in Seq(Int) /\ down \in Seq(Int)
  BY DEF IInv, BytesOK
<1>2. CASE i <= Len(heard)
  BY <1>1, <1>2 DEF IInv, StartsWithGreeting
<1>3. CASE ~(i <= Len(heard))
  <2>1. i - Len(heard) \in 1..Len(down) /\ Len(heard) + (i - Len(heard)) = i
    BY <1>1, <1>3
  <2> QED
    BY <1>1, <1>3, <2>1 DEF IInv, StartsWithGreeting
<1> QED
  BY <1>2, <1>3

(* Whatever the sizes of reads and buffers, before the server has greeted  *)
(* a client nothing is on its way in either direction, and what a greeted  *)
(* client hears next is the rest of the greeting.                          *)
THEOREM ChatInvariant == Spec => []IInv
  BY InitIInv, NextIInv, PTL DEF Spec

(* iocp_listener_cb enables reading before it writes the greeting, yet the *)
(* first bytes either client reads are the greeting.                       *)
THEOREM GreetingFirstThm == Spec => []GreetingFirst
  BY ChatInvariant, IInvGreeting, PTL

-----------------------------------------------------------------------------
(* What comes back. *)

(* A sequence and what was appended to it, byte by byte. *)
LEMMA Joined ==
    ASSUME NEW s \in Seq(Int), NEW t \in Seq(Int)
    PROVE  /\ s \o t \in Seq(Int)
           /\ Len(s \o t) = Len(s) + Len(t)
           /\ \A i \in 1..Len(s) : (s \o t)[i] = s[i]
           /\ \A i \in 1..Len(t) : (s \o t)[Len(s) + i] = t[i]
           /\ \A i \in 1..Len(s \o t) :
                 i \in 1..Len(s) \/ (i - Len(s) \in 1..Len(t) /\ (s \o t)[i] = t[i - Len(s)])
<1>1. /\ s \o t \in Seq(Int) /\ Len(s \o t) = Len(s) + Len(t)
      /\ \A i \in 1..(Len(s) + Len(t)) :
             (s \o t)[i] = IF i <= Len(s) THEN s[i] ELSE t[i - Len(s)]
  BY ConcatProperties
<1>2. Len(s) \in Nat /\ Len(t) \in Nat
  OBVIOUS
<1>3. ASSUME NEW i \in 1..Len(s) PROVE (s \o t)[i] = s[i]
  BY <1>1, <1>2
<1>4. ASSUME NEW i \in 1..Len(t) PROVE (s \o t)[Len(s) + i] = t[i]
  <2>1. Len(s) + i \in 1..(Len(s) + Len(t)) /\ ~(Len(s) + i <= Len(s)) /\ Len(s) + i - Len(s) = i
    BY <1>2
  <2> QED
    BY <1>1, <2>1
<1>5. ASSUME NEW i \in 1..Len(s \o t)
      PROVE  i \in 1..Len(s) \/ (i - Len(s) \in 1..Len(t) /\ (s \o t)[i] = t[i - Len(s)])
  BY <1>1, <1>2
<1> QED
  BY <1>1, <1>3, <1>4, <1>5

(* Appending twice is appending once. *)
LEMMA JoinedTwice == \A s, t, u \in Seq(Int) : (s \o t) \o u = s \o (t \o u)
  BY ConcatAssociative, SMTT(30)

(* What was lost on its way leaves the rest an echo. *)
LEMMA EchoCut ==
    ASSUME NEW s \in Seq(Int), NEW t \in Seq(Int), NEW said \in Seq(Int), NEW read \in Nat,
           Echoes(s \o t, said, read)
    PROVE  Echoes(s, said, read)
<1>1. PICK f \in [LettersOf(s \o t) -> 1..read] : IsEcho(s \o t, said, f)
  BY DEF Echoes
<1>2. ASSUME NEW i \in LettersOf(s) PROVE i \in LettersOf(s \o t) /\ (s \o t)[i] = s[i]
  BY Joined DEF LettersOf
<1> DEFINE g == [i \in LettersOf(s) |-> f[i]]
<1>3. g \in [LettersOf(s) -> 1..read]
  BY <1>2
<1>4. IsEcho(s, said, g)
  <2>1. ASSUME NEW i \in LettersOf(s), NEW j \in LettersOf(s), i < j PROVE g[i] < g[j]
    BY <1>1, <1>2, <2>1 DEF IsEcho
  <2>2. ASSUME NEW i \in LettersOf(s) PROVE said[g[i]] = s[i]
    BY <1>1, <1>2 DEF IsEcho
  <2> QED
    BY <2>1, <2>2 DEF IsEcho
<1> QED
  BY <1>3, <1>4 DEF Echoes

(* The server appends t, whose letters are the next k bytes it was sent,   *)
(* or some of them, one place further on.                                  *)
LEMMA EchoGrows ==
    ASSUME NEW s \in Seq(Int), NEW t \in Seq(Int), NEW said \in Seq(Int),
           NEW read \in Nat, NEW k \in Nat,
           \A j \in LettersOf(t) : j - 1 \in 1..k /\ t[j] = said[read + (j - 1)],
           Echoes(s, said, read)
    PROVE  Echoes(s \o t, said, read + k)
<1>1. PICK f \in [LettersOf(s) -> 1..read] : IsEcho(s, said, f)
  BY DEF Echoes
<1> DEFINE st == s \o t
<1> DEFINE g == [i \in LettersOf(st) |-> IF i <= Len(s) THEN f[i] ELSE read + (i - Len(s) - 1)]
<1>2. st \in Seq(Int) /\ Len(s) \in Nat /\ Len(t) \in Nat /\ Len(st) \in Nat
  BY Joined
<1>3. ASSUME NEW i \in LettersOf(st)
      PROVE  /\ i \in Int
             /\ i <= Len(s) => i \in LettersOf(s) /\ st[i] = s[i]
             /\ ~(i <= Len(s)) => i - Len(s) \in LettersOf(t) /\ st[i] = t[i - Len(s)]
  <2>1. i \in 1..Len(st) /\ st[i] > 0
    BY DEF LettersOf
  <2>2. CASE i <= Len(s)
    <3>1. i \in 1..Len(s)
      BY <1>2, <2>1, <2>2
    <3>2. st[i] = s[i]
      BY <3>1, Joined
    <3> QED
      BY <2>1, <2>2, <3>1, <3>2 DEF LettersOf
  <2>3. CASE ~(i <= Len(s))
    <3>1. i \notin 1..Len(s)
      BY <1>2, <2>3
    <3>2. i - Len(s) \in 1..Len(t) /\ st[i] = t[i - Len(s)]
      BY <2>1, <3>1, Joined
    <3> QED
      BY <2>1, <2>3, <3>2 DEF LettersOf
  <2> QED
    BY <2>2, <2>3
<1> HIDE DEF st
<1>4. ASSUME NEW i \in LettersOf(st), ~(i <= Len(s))
      PROVE  /\ i - Len(s) - 1 \in 1..k
             /\ st[i] = said[read + (i - Len(s) - 1)]
  BY <1>3, <1>4
<1>5. ASSUME NEW i \in LettersOf(st)
      PROVE  g[i] = IF i <= Len(s) THEN f[i] ELSE read + (i - Len(s) - 1)
  OBVIOUS
<1>6. g \in [LettersOf(st) -> 1..(read + k)]
  <2>1. ASSUME NEW i \in LettersOf(st)
        PROVE  (IF i <= Len(s) THEN f[i] ELSE read + (i - Len(s) - 1)) \in 1..(read + k)
    <3>1. CASE i <= Len(s)
      <4>1. f[i] \in 1..read
        BY <1>3, <3>1
      <4> QED
        BY <3>1, <4>1
    <3>2. CASE ~(i <= Len(s))
      BY <1>2, <1>3, <1>4, <3>2
    <3> QED
      BY <3>1, <3>2
  <2> QED
    BY <2>1
<1> HIDE DEF g
<1>7. ASSUME NEW i \in LettersOf(st), NEW j \in LettersOf(st), i < j PROVE g[i] < g[j]
  <2>1. i \in Int /\ j \in Int
    BY <1>3
  <2>2. CASE j <= Len(s)
    <3>1. i <= Len(s)
      BY <1>2, <1>7, <2>1, <2>2
    <3>2. i \in LettersOf(s) /\ j \in LettersOf(s)
      BY <1>3, <2>2, <3>1
    <3> QED
      BY <1>1, <1>5, <1>7, <2>2, <3>1, <3>2 DEF IsEcho
  <2>3. CASE ~(j <= Len(s)) /\ i <= Len(s)
    <3>1. f[i] \in 1..read /\ g[i] = f[i]
      BY <1>3, <1>5, <2>3
    <3>2. g[j] = read + (j - Len(s) - 1) /\ j - Len(s) - 1 \in 1..k
      BY <1>4, <1>5, <2>3
    <3> QED
      BY <3>1, <3>2
  <2>4. CASE ~(j <= Len(s)) /\ ~(i <= Len(s))
    BY <1>2, <1>5, <1>7, <2>1, <2>4
  <2> QED
    BY <2>2, <2>3, <2>4
<1>8. ASSUME NEW i \in LettersOf(st) PROVE said[g[i]] = st[i]
  <2>1. CASE i <= Len(s)
    BY <1>1, <1>3, <1>5, <2>1 DEF IsEcho
  <2>2. CASE ~(i <= Len(s))
    BY <1>4, <1>5, <2>2
  <2> QED
    BY <2>1, <2>2
<1>9. IsEcho(st, said, g)
  BY <1>7, <1>8 DEF IsEcho
<1> QED
  BY <1>6, <1>9 DEF Echoes, st

(* What the client sends later changes nothing of it. *)
LEMMA EchoOfMore ==
    ASSUME NEW s \in Seq(Int), NEW said \in Seq(Int), NEW t \in Seq(Int),
           NEW read \in 0..Len(said), Echoes(s, said, read)
    PROVE  Echoes(s, said \o t, read)
<1>1. PICK f \in [LettersOf(s) -> 1..read] : IsEcho(s, said, f)
  BY DEF Echoes
<1>2. ASSUME NEW i \in LettersOf(s) PROVE (said \o t)[f[i]] = s[i]
  <2>1. f[i] \in 1..Len(said)
    OBVIOUS
  <2> QED
    BY <1>1, <2>1, Joined DEF IsEcho
<1>3. IsEcho(s, said \o t, f)
  BY <1>1, <1>2 DEF IsEcho
<1> QED
  BY <1>3 DEF Echoes

(* An echo of bytes in order has no letter twice and is in order. *)
LEMMA EchoCounted ==
    ASSUME NEW s \in Seq(Int), NEW said \in Seq(Int), NEW last \in Nat, InOrder(said, last),
           NEW read \in 0..Len(said), Echoes(s, said, read)
    PROVE  /\ \A i \in LettersOf(s) : Cardinality(Places(s, s[i])) <= Cardinality(Places(said, s[i]))
           /\ \A i, j \in LettersOf(s) : i < j => s[i] <= s[j]
<1>1. PICK f \in [LettersOf(s) -> 1..read] : IsEcho(s, said, f)
  BY DEF Echoes
<1>2. ASSUME NEW i \in LettersOf(s) PROVE f[i] \in LettersOf(said) /\ said[f[i]] = s[i]
  <2>1. f[i] \in 1..Len(said) /\ s[i] > 0
    BY DEF LettersOf
  <2> QED
    BY <1>1, <2>1 DEF IsEcho, LettersOf
<1>3. ASSUME NEW i \in LettersOf(s), NEW j \in LettersOf(s), i < j PROVE s[i] <= s[j]
  <2>1. f[i] < f[j]
    BY <1>1, <1>3 DEF IsEcho
  <2> QED
    BY <1>2, <2>1 DEF InOrder
<1>4. ASSUME NEW i \in LettersOf(s)
      PROVE  Cardinality(Places(s, s[i])) <= Cardinality(Places(said, s[i]))
  <2> DEFINE S == Places(s, s[i])
  <2> DEFINE T == Places(said, s[i])
  <2> DEFINE g == [j \in S |-> f[j]]
  <2>1. ASSUME NEW j \in S PROVE j \in LettersOf(s) /\ j \in Int /\ f[j] \in T
    <3>1. j \in 1..Len(s) /\ s[j] = s[i] /\ s[i] > 0
      BY DEF Places, LettersOf
    <3>2. j \in LettersOf(s)
      BY <3>1 DEF LettersOf
    <3>3. f[j] \in 1..Len(said) /\ said[f[j]] = s[i]
      BY <1>2, <3>1, <3>2
    <3> QED
      BY <3>1, <3>2, <3>3 DEF Places
  <2>2. g \in [S -> T]
    BY <2>1
  <2>3. ASSUME NEW a \in S, NEW b \in S, g[a] = g[b] PROVE a = b
    <3>1. a \in LettersOf(s) /\ b \in LettersOf(s) /\ a \in Int /\ b \in Int /\ f[a] = f[b]
      BY <2>1, <2>3
    <3>2. f[a] \in Int /\ f[b] \in Int
      BY <3>1
    <3>3. (a < b => f[a] < f[b]) /\ (b < a => f[b] < f[a])
      BY <1>1, <3>1 DEF IsEcho
    <3> QED
      BY <3>1, <3>2, <3>3
  <2> HIDE DEF S, T, g
  <2>4. g \in Injection(S, T)
    BY <2>2, <2>3 DEF Injection, IsInjective
  <2>5. IsFiniteSet(T)
    <3>1. IsFiniteSet(1..Len(said)) /\ T \in SUBSET (1..Len(said))
      BY FS_Interval DEF Places, T
    <3> QED
      BY <3>1, FS_Subset
  <2>6. Cardinality(S) <= Cardinality(T)
    BY <2>4, <2>5, FS_Injection
  <2> QED
    BY <2>6 DEF S, T
<1> QED
  BY <1>3, <1>4

(* The number of messages of bytes in order is that of the last one. *)
LEMMA MessagesCounted ==
    ASSUME NEW s \in Seq(Int), NEW last \in Nat, InOrder(s, last)
    PROVE  Messages(s) = last
<1>1. ToSet(s) = {s[i] : i \in 1..Len(s)}
  BY DEF ToSet
<1>2. ToSet(s) \ {0} = 1..last
  <2>1. ASSUME NEW m \in ToSet(s) \ {0} PROVE m \in 1..last
    BY <1>1 DEF InOrder
  <2>2. ASSUME NEW m \in 1..last PROVE m \in ToSet(s) \ {0}
    BY <1>1, SMTT(30) DEF InOrder
  <2> QED
    BY <2>1, <2>2
<1>3. Cardinality(1..last) = last
  BY FS_Interval
<1> QED
  BY <1>2, <1>3 DEF Messages, Zero

(* The next message follows the ones before. *)
LEMMA NextMessage ==
    ASSUME NEW s \in Seq(Int), NEW t \in Seq(Int), NEW last \in Nat, InOrder(s, last),
           \A i \in 1..Len(t) : t[i] \in {0, last + 1}
    PROVE  \E next \in Nat : InOrder(s \o t, next)
<1> DEFINE st == s \o t
<1>1. /\ Len(s) \in Nat /\ Len(t) \in Nat /\ Len(st) = Len(s) + Len(t)
      /\ \A i \in 1..Len(s) : st[i] = s[i]
      /\ \A i \in 1..Len(t) : st[Len(s) + i] = t[i]
      /\ \A i \in 1..Len(st) :
            i \in 1..Len(s) \/ (i - Len(s) \in 1..Len(t) /\ st[i] = t[i - Len(s)])
  BY Joined
<1> HIDE DEF st
<1>2. \A i \in 1..Len(s) : i \in 1..Len(st)
  BY <1>1
<1>3. ASSUME NEW i \in 1..Len(st), i \notin 1..Len(s) PROVE st[i] \in {0, last + 1}
  BY <1>1, <1>3
<1>4. ASSUME NEW i \in 1..Len(st), i \in 1..Len(s) PROVE st[i] \in 0..last /\ st[i] = s[i]
  BY <1>1, <1>4 DEF InOrder
<1>5. ASSUME NEW i \in LettersOf(st), NEW j \in LettersOf(st), i < j PROVE st[i] <= st[j]
  <2>1. i \in 1..Len(st) /\ j \in 1..Len(st) /\ st[i] > 0 /\ st[j] > 0
    BY DEF LettersOf
  <2>2. CASE j \in 1..Len(s)
    <3>1. i \in 1..Len(s)
      BY <1>1, <1>5, <2>1, <2>2
    <3>2. i \in LettersOf(s) /\ j \in LettersOf(s)
      BY <1>4, <2>1, <2>2, <3>1 DEF LettersOf
    <3> QED
      BY <1>4, <1>5, <2>1, <2>2, <3>1, <3>2 DEF InOrder
  <2>3. CASE j \notin 1..Len(s)
    <3>1. st[j] = last + 1
      BY <1>3, <2>1, <2>3
    <3>2. st[i] \in 0..(last + 1)
      <4>1. CASE i \in 1..Len(s)
        BY <1>4, <2>1, <4>1
      <4>2. CASE i \notin 1..Len(s)
        BY <1>3, <2>1, <4>2
      <4> QED
        BY <4>1, <4>2
    <3> QED
      BY <3>1, <3>2
  <2> QED
    BY <2>2, <2>3
<1>6. ASSUME NEW m \in 1..last PROVE \E i \in 1..Len(st) : st[i] = m
  <2>1. PICK i \in 1..Len(s) : s[i] = m
    BY DEF InOrder
  <2> QED
    BY <1>1, <1>2, <2>1
<1>7. CASE \E i \in 1..Len(t) : t[i] = last + 1
  <2>1. ASSUME NEW m \in 1..(last + 1) PROVE \E i \in 1..Len(st) : st[i] = m
    <3>1. CASE m = last + 1
      <4>1. PICK i \in 1..Len(t) : t[i] = last + 1
        BY <1>7
      <4>2. Len(s) + i \in 1..Len(st) /\ st[Len(s) + i] = m
        BY <1>1, <3>1, <4>1
      <4> QED
        BY <4>2
    <3>2. CASE m # last + 1
      <4>1. m \in 1..last
        BY <3>2
      <4> QED
        BY <1>6, <4>1
    <3> QED
      BY <3>1, <3>2
  <2>2. ASSUME NEW i \in 1..Len(st) PROVE st[i] \in 0..(last + 1)
    <3>1. CASE i \in 1..Len(s)
      <4>1. st[i] \in 0..last
        BY <1>4, <3>1
      <4> QED
        BY <4>1
    <3>2. CASE i \notin 1..Len(s)
      <4>1. st[i] \in {0, last + 1}
        BY <1>3, <3>2
      <4> QED
        BY <4>1
    <3> QED
      BY <3>1, <3>2
  <2>3. InOrder(st, last + 1)
    BY <1>5, <2>1, <2>2 DEF InOrder
  <2> QED
    BY <2>3 DEF st
<1>8. CASE ~(\E i \in 1..Len(t) : t[i] = last + 1)
  <2>1. ASSUME NEW i \in 1..Len(st), i \notin 1..Len(s) PROVE st[i] = 0
    BY <1>1, <1>8, <2>1
  <2>2. \A i \in 1..Len(st) : st[i] \in 0..last
    BY <1>4, <2>1
  <2>3. InOrder(st, last)
    BY <1>5, <1>6, <2>2 DEF InOrder
  <2> QED
    BY <2>3 DEF st
<1> QED
  BY <1>7, <1>8

(* The text the server echoes: what it read, up to the first zero, unless  *)
(* it is longer than what was read.                                        *)
LEMMA TextsOfBytes ==
    ASSUME NEW bytes \in Seq(Int), NEW text \in Texts(bytes), ~(Len(text) > Len(bytes))
    PROVE  \A i \in LettersOf(text) : i \in 1..Len(bytes) /\ text[i] = bytes[i]
<1>1. ASSUME NEW k \in 1..Len(bytes), text = SubSeq(bytes, 1, k - 1),
             NEW i \in LettersOf(text)
      PROVE  i \in 1..Len(bytes) /\ text[i] = bytes[i]
  <2>1. 1 \in 1..(Len(bytes) + 1) /\ k - 1 \in 0..Len(bytes)
    OBVIOUS
  <2>2. /\ Len(text) = IF 1 <= k - 1 THEN k - 1 - 1 + 1 ELSE 0
        /\ \A j \in 1..(k - 1 - 1 + 1) : text[j] = bytes[1 + j - 1]
    BY <1>1, <2>1, PartOfBytes
  <2>3. i \in 1..Len(text)
    BY DEF LettersOf
  <2>4. i \in 1..(k - 1)
    BY <2>2, <2>3
  <2> QED
    BY <2>2, <2>4
<1>2. ASSUME NEW b \in Beyond PROVE text # Append(bytes, b)
  OBVIOUS
<1>3. ASSUME text = bytes, NEW i \in LettersOf(text)
      PROVE  i \in 1..Len(bytes) /\ text[i] = bytes[i]
  BY <1>3 DEF LettersOf
<1>4. \/ \E k \in 1..Len(bytes) : text = SubSeq(bytes, 1, k - 1)
      \/ text = bytes \/ \E b \in Beyond : text = Append(bytes, b)
  BY DEF Texts
<1> QED
  BY <1>1, <1>2, <1>3, <1>4

(* The frame around a text has no letters: a letter of an answer is one    *)
(* place further on than in the text.                                      *)
LEMMA FramedLetters ==
    ASSUME NEW text \in Seq(Int)
    PROVE  /\ <<Frame>> \o text \o <<Frame, Zero>> \in Seq(Int)
           /\ \A j \in LettersOf(<<Frame>> \o text \o <<Frame, Zero>>) :
                 /\ j - 1 \in LettersOf(text)
                 /\ (<<Frame>> \o text \o <<Frame, Zero>>)[j] = text[j - 1]
<1> DEFINE a == <<Frame>> \o text
<1> DEFINE b == a \o <<Frame, Zero>>
<1>1. /\ <<Frame>> \in Seq(Int) /\ <<Frame, Zero>> \in Seq(Int)
      /\ Len(<<Frame>>) = 1 /\ Len(<<Frame, Zero>>) = 2
      /\ <<Frame>>[1] = -2 /\ \A i \in 1..2 : <<Frame, Zero>>[i] \in {-2, 0}
  BY DEF Frame, Zero
<1>2. /\ a \in Seq(Int)
      /\ \A i \in 1..Len(<<Frame>>) : a[i] = <<Frame>>[i]
      /\ \A i \in 1..Len(a) :
            \/ i \in 1..Len(<<Frame>>)
            \/ i - Len(<<Frame>>) \in 1..Len(text) /\ a[i] = text[i - Len(<<Frame>>)]
  BY <1>1, Joined
<1> HIDE DEF a
<1>3. /\ b \in Seq(Int)
      /\ \A i \in 1..Len(a) : b[i] = a[i]
      /\ \A i \in 1..Len(b) :
            \/ i \in 1..Len(a)
            \/ i - Len(a) \in 1..Len(<<Frame, Zero>>) /\ b[i] = <<Frame, Zero>>[i - Len(a)]
  BY <1>1, <1>2, Joined
<1> HIDE DEF b
<1>4. ASSUME NEW j \in LettersOf(b) PROVE j - 1 \in LettersOf(text) /\ b[j] = text[j - 1]
  <2>1. j \in 1..Len(b) /\ b[j] > 0 /\ j \in Nat
    BY <1>3 DEF LettersOf
  <2>2. j \in 1..Len(a)
    <3>1. SUFFICES ASSUME j \notin 1..Len(a) PROVE FALSE
      OBVIOUS
    <3>2. j - Len(a) \in 1..2 /\ b[j] = <<Frame, Zero>>[j - Len(a)]
      BY <1>1, <1>3, <2>1, <3>1
    <3>3. b[j] \in {-2, 0}
      BY <1>1, <3>2
    <3> QED
      BY <2>1, <3>3
  <2>3. b[j] = a[j] /\ a[j] > 0
    BY <1>3, <2>1, <2>2
  <2>4. j \notin 1..1
    <3>1. SUFFICES ASSUME j \in 1..1 PROVE FALSE
      OBVIOUS
    <3>2. a[j] = -2
      BY <1>1, <1>2, <3>1
    <3> QED
      BY <2>3, <3>2
  <2>5. j - 1 \in 1..Len(text) /\ a[j] = text[j - 1]
    BY <1>1, <1>2, <2>2, <2>4
  <2> QED
    BY <2>3, <2>5 DEF LettersOf
<1> QED
  BY <1>3, <1>4 DEF a, b

(* Writing the frame, the text and the end is writing the answer. *)
LEMMA FramedJoined ==
    ASSUME NEW s \in Seq(Int), NEW text \in Seq(Int)
    PROVE  s \o <<Frame>> \o text \o <<Frame, Zero>> = s \o (<<Frame>> \o text \o <<Frame, Zero>>)
<1> DEFINE a == <<Frame>>
<1> DEFINE z == <<Frame, Zero>>
<1>1. a \in Seq(Int) /\ z \in Seq(Int)
  BY DEF Frame, Zero
<1> HIDE DEF a, z
<1>2. a \o text \in Seq(Int)
  BY <1>1, Joined
<1>3. (s \o a) \o text = s \o (a \o text)
  BY <1>1, JoinedTwice, ZenonT(30)
<1>4. (s \o (a \o text)) \o z = s \o ((a \o text) \o z)
  BY <1>1, <1>2, JoinedTwice, ZenonT(30)
<1> QED
  BY <1>3, <1>4 DEF a, z

(* Nothing was sent in the initial state. *)
LEMMA InitEcho == Init => EchoInv
<1> SUFFICES ASSUME Init PROVE EchoInv
  OBVIOUS
<1>1. /\ up = <<>> /\ sent = <<>> /\ heard = <<>> /\ down = <<>>
      /\ <<>> \in Seq(Int) /\ Len(<<>>) = 0 /\ 1..0 = {}
  BY DEF Init
<1>2. Returned = <<>>
  BY <1>1 DEF Returned
<1>3. LettersOf(<<>>) = {}
  BY <1>1 DEF LettersOf
<1>4. InOrder(sent, 0)
  BY <1>1, <1>3 DEF InOrder
<1>5. SentInOrder
  BY <1>1, <1>4, MessagesCounted DEF SentInOrder
<1>6. Echoes(Returned, sent, Len(sent) - Len(up))
  <2> DEFINE f == [i \in {} |-> 1]
  <2>1. f \in [{} -> 1..(Len(sent) - Len(up))]
    OBVIOUS
  <2>2. IsEcho(<<>>, sent, f)
    BY <1>3 DEF IsEcho
  <2> QED
    BY <1>2, <1>3, <2>1, <2>2 DEF Echoes
<1> QED
  BY <1>1, <1>5, <1>6 DEF EchoInv, UpIsTail

(* More room does not hurt. *)
LEMMA EchoWithin ==
    ASSUME NEW s, NEW said, NEW read \in Nat, NEW more \in Nat, read <= more,
           Echoes(s, said, read)
    PROVE  Echoes(s, said, more)
<1>1. PICK f \in [LettersOf(s) -> 1..read] : IsEcho(s, said, f)
  BY DEF Echoes
<1>2. f \in [LettersOf(s) -> 1..more]
  OBVIOUS
<1> QED
  BY <1>1, <1>2 DEF Echoes

(* The bytes are there, and those the server has read can be counted. *)
LEMMA EchoBytes ==
    ASSUME BytesOK, UpIsTail
    PROVE  /\ up \in Seq(Int) /\ down \in Seq(Int) /\ heard \in Seq(Int) /\ sent \in Seq(Int)
           /\ Returned \in Seq(Int)
           /\ Len(up) \in Nat /\ Len(sent) \in Nat /\ Len(up) <= Len(sent)
           /\ Len(sent) - Len(up) \in 0..Len(sent)
<1>1. up \in Seq(Int) /\ down \in Seq(Int) /\ heard \in Seq(Int) /\ sent \in Seq(Int)
  BY DEF BytesOK
<1>2. Returned \in Seq(Int)
  BY <1>1, Joined DEF Returned
<1>3. Len(up) \in Nat /\ Len(sent) \in Nat /\ Len(up) <= Len(sent)
  BY <1>1 DEF UpIsTail
<1> QED
  BY <1>1, <1>2, <1>3

(* A step that sends nothing and adds nothing to what comes back; it may   *)
(* lose bytes that were on their way, in either direction.                 *)
LEMMA EchoKept ==
    ASSUME BytesOK, EchoInv, sent' = sent, readbuf' = readbuf, up' = up \/ up' = <<>>,
           NEW lost \in Seq(Int), Returned' \in Seq(Int), Returned = Returned' \o lost
    PROVE  EchoInv'
<1>1. /\ up \in Seq(Int) /\ sent \in Seq(Int) /\ Len(up) \in Nat /\ Len(sent) \in Nat
      /\ Len(up) <= Len(sent) /\ Len(sent) - Len(up) \in Nat
  BY EchoBytes DEF EchoInv
<1>2. Len(up') \in Nat /\ Len(up') <= Len(up) /\ UpIsTail'
  <2>1. CASE up' = up
    BY <1>1, <2>1 DEF EchoInv, UpIsTail
  <2>2. CASE up' = <<>>
    BY <1>1, <2>2 DEF UpIsTail
  <2> QED
    BY <2>1, <2>2
<1>3. SentInOrder'
  BY DEF EchoInv, SentInOrder
<1>4. readbuf # "overread" => Echoes(Returned', sent, Len(sent) - Len(up))
  <2>1. readbuf # "overread" => Echoes(Returned' \o lost, sent, Len(sent) - Len(up))
    BY DEF EchoInv
  <2> QED
    BY <1>1, <2>1, EchoCut
<1>5. readbuf # "overread" => Echoes(Returned', sent, Len(sent) - Len(up'))
  <2>1. Len(sent) - Len(up') \in Nat /\ Len(sent) - Len(up) <= Len(sent) - Len(up')
    BY <1>1, <1>2
  <2> QED
    BY <1>1, <1>4, <2>1, EchoWithin
<1> QED
  BY <1>2, <1>3, <1>5 DEF EchoInv

(* A step that sends nothing and loses nothing to the client. *)
LEMMA EchoSame ==
    ASSUME BytesOK, EchoInv, sent' = sent, readbuf' = readbuf, up' = up \/ up' = <<>>,
           Returned' = Returned
    PROVE  EchoInv'
<1>1. Returned \in Seq(Int) /\ <<>> \in Seq(Int)
  BY EchoBytes DEF EchoInv
<1>2. Returned = Returned' \o <<>>
  BY <1>1, ConcatEmptySeq
<1> QED
  BY <1>1, <1>2, EchoKept

(* Reading moves bytes, and loses none. *)
LEMMA TakesReturned ==
    ASSUME BytesOK, NEW most \in Nat, Takes(most)
    PROVE  Returned' = Returned
<1>1. PICK k \in 1..most : /\ k <= Len(down)
                           /\ heard' = heard \o SubSeq(down, 1, k)
                           /\ down' = SubSeq(down, k + 1, Len(down))
  BY DEF Takes
<1>2. heard \in Seq(Int) /\ down \in Seq(Int) /\ Len(down) \in Nat /\ k \in Nat
  BY DEF BytesOK
<1>3. /\ 1 \in 1..(Len(down) + 1) /\ k \in (1 - 1)..Len(down) /\ k \in 0..Len(down)
      /\ k + 1 \in 1..(Len(down) + 1) /\ Len(down) \in k..Len(down) /\ Len(down) \in 0..Len(down)
  BY <1>1, <1>2
<1> DEFINE a == SubSeq(down, 1, k)
<1> DEFINE b == SubSeq(down, k + 1, Len(down))
<1>4. a \in Seq(Int) /\ b \in Seq(Int)
  BY <1>2, <1>3, PartOfBytes
<1>5. a \o b = down
  <2>1. a \o b = SubSeq(down, 1, Len(down))
    BY <1>2, <1>3, ConcatAdjacentSubSeq
  <2>2. SubSeq(down, 1, Len(down)) = down
    BY <1>2, SubSeqFull
  <2> QED
    BY <2>1, <2>2
<1> HIDE DEF a, b
<1>6. (heard \o a) \o b = heard \o (a \o b)
  BY <1>2, <1>4, JoinedTwice, ZenonT(30)
<1> QED
  BY <1>1, <1>5, <1>6 DEF Returned, a, b

(* A client sends the letters of one more message, and zeros. *)
LEMMA LettersNext ==
    ASSUME BytesOK, SentInOrder, NEW count \in Nat
    PROVE  /\ \A i \in 1..Len(Letters(count)) : Letters(count)[i] \in {0, Messages(sent) + 1}
           /\ \A i \in 1..Len(Append(Letters(count), Zero)) :
                 Append(Letters(count), Zero)[i] \in {0, Messages(sent) + 1}
<1>1. Letters(count) \in Seq(Int)
  BY LettersBytes
<1>2. Len(Letters(count)) = count /\ \A i \in 1..count : Letters(count)[i] = Messages(sent) + 1
  BY DEF Letters
<1> DEFINE s == Letters(count)
<1> HIDE DEF s
<1>3. s \in Seq(Int) /\ Len(s) = count /\ \A i \in 1..count : s[i] = Messages(sent) + 1
  BY <1>1, <1>2 DEF s
<1>4. \A i \in 1..Len(Append(s, Zero)) : Append(s, Zero)[i] \in {0, Messages(sent) + 1}
  BY <1>3 DEF Zero
<1> QED
  BY <1>2, <1>4 DEF s

(* What a client sends is the end of what was sent, and a message of its   *)
(* own.                                                                    *)
LEMMA EchoSends ==
    ASSUME BytesOK, EchoInv, NEW text \in Seq(Int), Sends(text),
           \A i \in 1..Len(text) : text[i] \in {0, Messages(sent) + 1},
           Returned' = Returned, readbuf' = readbuf
    PROVE  EchoInv'
<1>1. CASE ~(connection = "open")
  BY <1>1, EchoSame DEF Sends
<1>2. CASE connection = "open"
  <2>1. up' = up \o text /\ sent' = sent \o text
    BY <1>2 DEF Sends
  <2>2. /\ up \in Seq(Int) /\ sent \in Seq(Int) /\ Len(up) \in Nat /\ Len(sent) \in Nat
        /\ Len(up) <= Len(sent) /\ Len(sent) - Len(up) \in 0..Len(sent)
        /\ Returned \in Seq(Int) /\ Len(text) \in Nat
    BY EchoBytes DEF EchoInv
  <2>3. /\ Len(up') = Len(up) + Len(text)
        /\ \A i \in 1..Len(up) : up'[i] = up[i]
        /\ \A i \in 1..Len(up') :
              i \in 1..Len(up) \/ (i - Len(up) \in 1..Len(text) /\ up'[i] = text[i - Len(up)])
    BY <2>1, <2>2, Joined
  <2>4. /\ sent' \in Seq(Int) /\ Len(sent') = Len(sent) + Len(text)
        /\ \A i \in 1..Len(sent) : sent'[i] = sent[i]
        /\ \A i \in 1..Len(text) : sent'[Len(sent) + i] = text[i]
    BY <2>1, <2>2, Joined
  <2>5. Len(sent') - Len(up') = Len(sent) - Len(up)
    BY <2>2, <2>3, <2>4
  <2>6. UpIsTail'
    <3>1. ASSUME NEW i \in 1..Len(up') PROVE up'[i] = sent'[Len(sent') - Len(up') + i]
      <4>1. CASE i \in 1..Len(up)
        <5>1. Len(sent) - Len(up) + i \in 1..Len(sent)
          BY <2>2, <4>1
        <5>2. up[i] = sent[Len(sent) - Len(up) + i]
          BY <4>1 DEF EchoInv, UpIsTail
        <5> QED
          BY <2>3, <2>4, <2>5, <4>1, <5>1, <5>2
      <4>2. CASE i \notin 1..Len(up)
        <5>1. i - Len(up) \in 1..Len(text) /\ up'[i] = text[i - Len(up)]
          BY <2>3, <4>2
        <5>2. Len(sent) - Len(up) + i = Len(sent) + (i - Len(up))
          BY <2>2
        <5> QED
          BY <2>4, <2>5, <5>1, <5>2
      <4> QED
        BY <4>1, <4>2
    <3>2. Len(up') <= Len(sent')
      BY <2>2, <2>3, <2>4
    <3> QED
      BY <3>1, <3>2 DEF UpIsTail
  <2>7. SentInOrder'
    <3>1. Messages(sent) \in Nat
      BY <2>2, MessagesNat
    <3>2. \E next \in Nat : InOrder(sent \o text, next)
      BY <2>2, <3>1, NextMessage DEF EchoInv, SentInOrder
    <3>3. PICK next \in Nat : InOrder(sent', next)
      BY <2>1, <3>2
    <3>4. Messages(sent') = next
      BY <2>4, <3>3, MessagesCounted
    <3> QED
      BY <3>3, <3>4 DEF SentInOrder
  <2>8. readbuf # "overread" => Echoes(Returned', sent', Len(sent') - Len(up'))
    <3>1. readbuf # "overread" => Echoes(Returned, sent, Len(sent) - Len(up))
      BY DEF EchoInv
    <3>2. readbuf # "overread" => Echoes(Returned, sent \o text, Len(sent) - Len(up))
      BY <2>2, <3>1, EchoOfMore
    <3> QED
      BY <2>1, <2>5, <3>2
  <2> QED
    BY <2>6, <2>7, <2>8 DEF EchoInv
<1> QED
  BY <1>1, <1>2

(* iocp_conn_readcb of the server: the letters of its answer are those of  *)
(* the bytes it took from the connection.                                  *)
LEMMA ServerReadsEcho ==
    ASSUME IInv, EchoInv, NEW k \in 1..MAX_TO_READ_EVER, iocp_conn_readcb(k)
    PROVE  EchoInv'
<1>1. /\ up \in Seq(Int) /\ down \in Seq(Int) /\ heard \in Seq(Int) /\ sent \in Seq(Int)
      /\ Returned \in Seq(Int)
      /\ Len(up) \in Nat /\ Len(sent) \in Nat /\ Len(up) <= Len(sent)
      /\ Len(sent) - Len(up) \in 0..Len(sent)
      /\ k \in Nat /\ k >= 1 /\ k <= Len(up)
  BY ChatAssumption, EchoBytes DEF IInv, EchoInv, iocp_conn_readcb
<1> DEFINE read == Len(sent) - Len(up)
<1> DEFINE bytes == SubSeq(up, 1, k)
<1>2. bytes \in Seq(Int) /\ Len(bytes) = k /\ \A i \in 1..k : bytes[i] = up[i]
  <2>1. 1 \in 1..(Len(up) + 1) /\ k \in 0..Len(up)
    BY <1>1
  <2>2. /\ bytes \in Seq(Int)
        /\ Len(bytes) = IF 1 <= k THEN k - 1 + 1 ELSE 0
        /\ \A i \in 1..(k - 1 + 1) : bytes[i] = up[1 + i - 1]
    BY <1>1, <2>1, PartOfBytes
  <2> HIDE DEF bytes
  <2> QED
    BY <1>1, <2>2
<1>3. /\ Len(up') = Len(up) - k
      /\ \A i \in 1..(Len(up) - k) : up'[i] = up[k + i]
  <2>1. k + 1 \in 1..(Len(up) + 1) /\ Len(up) \in 0..Len(up)
    BY <1>1
  <2>2. up' = SubSeq(up, k + 1, Len(up))
    BY DEF iocp_conn_readcb
  <2>3. /\ Len(up') = IF k + 1 <= Len(up) THEN Len(up) - (k + 1) + 1 ELSE 0
        /\ \A i \in 1..(Len(up) - (k + 1) + 1) : up'[i] = up[k + 1 + i - 1]
    BY <1>1, <2>1, <2>2, PartOfBytes
  <2> QED
    BY <1>1, <2>3
<1>4. PICK text \in Texts(bytes) :
          /\ down' = down \o <<Frame>> \o text \o <<Frame, Zero>>
          /\ readbuf' = IF Len(text) > k THEN "overread" ELSE readbuf
  BY DEF iocp_conn_readcb
<1> HIDE DEF bytes
<1>5. /\ text \in Seq(Int)
      /\ ~(Len(text) > k) => \A i \in LettersOf(text) : i \in 1..k /\ text[i] = up[i]
  BY <1>2, TextsBytes, TextsOfBytes DEF IInv
<1> DEFINE answer == <<Frame>> \o text \o <<Frame, Zero>>
<1>6. /\ answer \in Seq(Int)
      /\ \A j \in LettersOf(answer) : j - 1 \in LettersOf(text) /\ answer[j] = text[j - 1]
  BY <1>5, FramedLetters
<1> HIDE DEF read
<1>7. down' = down \o answer
  BY <1>1, <1>4, <1>5, FramedJoined
<1> HIDE DEF answer
<1>8. Returned' = Returned \o answer
  <2>1. (heard \o down) \o answer = heard \o (down \o answer)
    BY <1>1, <1>6, JoinedTwice, ZenonT(30)
  <2>2. heard' = heard
    BY DEF iocp_conn_readcb
  <2> QED
    BY <1>7, <2>1, <2>2 DEF Returned
<1>9. sent' = sent /\ Messages(sent') = Messages(sent)
  BY DEF iocp_conn_readcb
<1>10. read \in Nat /\ Len(sent) - Len(up') = read + k
  BY <1>1, <1>3 DEF read
<1>11. ASSUME NEW i \in 1..Len(up) PROVE up[i] = sent[read + i]
  BY DEF EchoInv, UpIsTail, read
<1>12. UpIsTail'
  <2>1. ASSUME NEW i \in 1..Len(up') PROVE up'[i] = sent[read + k + i]
    <3>1. i \in 1..(Len(up) - k) /\ k + i \in 1..Len(up) /\ read + (k + i) = read + k + i
      BY <1>1, <1>3, <1>10
    <3> QED
      BY <1>3, <1>11, <3>1
  <2>2. Len(up') <= Len(sent)
    BY <1>1, <1>3
  <2> QED
    BY <1>9, <1>10, <2>1, <2>2 DEF UpIsTail
<1>13. SentInOrder'
  BY <1>9 DEF EchoInv, SentInOrder
<1>14. ASSUME ~(Len(text) > k), NEW j \in LettersOf(answer)
       PROVE  j - 1 \in 1..k /\ answer[j] = sent[read + (j - 1)]
  <2>1. j - 1 \in 1..k /\ answer[j] = up[j - 1]
    BY <1>5, <1>6, <1>14
  <2>2. j - 1 \in 1..Len(up)
    BY <1>1, <2>1
  <2> QED
    BY <1>11, <2>1, <2>2
<1>15. readbuf # "overread" => Echoes(Returned, sent, read)
  BY DEF EchoInv, read
<1>16. readbuf # "overread" /\ ~(Len(text) > k) => Echoes(Returned \o answer, sent, read + k)
  BY <1>1, <1>6, <1>10, <1>14, <1>15, EchoGrows
<1>17. readbuf' # "overread" => Echoes(Returned', sent', Len(sent') - Len(up'))
  BY <1>4, <1>8, <1>9, <1>10, <1>16
<1> QED
  BY <1>12, <1>13, <1>17 DEF EchoInv

(* The greeting has no letters. *)
LEMMA GreetEcho == IInv /\ EchoInv /\ Greet => EchoInv'
<1> SUFFICES ASSUME IInv, EchoInv, Greet PROVE EchoInv'
  OBVIOUS
<1>1. sent' = sent /\ up' = up /\ heard' = heard /\ readbuf' = readbuf
  BY DEF Greet
<1>2. CASE connection # "open"
  <2>1. Returned' = Returned
    BY <1>1, <1>2 DEF Greet, Returned
  <2> QED
    BY <1>1, <2>1, EchoSame DEF IInv
<1>3. CASE connection = "open"
  <2>1. /\ down \in Seq(Int) /\ heard \in Seq(Int) /\ sent \in Seq(Int) /\ Returned \in Seq(Int)
        /\ Len(sent) - Len(up) \in Nat /\ Len(sent) - Len(up) + 0 = Len(sent) - Len(up)
    BY EchoBytes DEF IInv, EchoInv
  <2>2. MESSAGE \in Seq(Int) /\ LettersOf(MESSAGE) = {}
    BY DEF MESSAGE, Hello, LettersOf
  <2>3. Returned' = Returned \o MESSAGE
    <3>1. (heard \o down) \o MESSAGE = heard \o (down \o MESSAGE)
      BY <2>1, <2>2, JoinedTwice, ZenonT(30)
    <3> QED
      BY <1>1, <1>3, <3>1 DEF Greet, Returned
  <2>4. readbuf # "overread" => Echoes(Returned, sent, Len(sent) - Len(up))
    BY DEF EchoInv
  <2>5. readbuf # "overread" => Echoes(Returned \o MESSAGE, sent, Len(sent) - Len(up) + 0)
    BY <2>1, <2>2, <2>4, EchoGrows
  <2>6. UpIsTail' /\ SentInOrder'
    BY <1>1 DEF EchoInv, UpIsTail, SentInOrder
  <2> QED
    BY <1>1, <2>1, <2>3, <2>5, <2>6 DEF EchoInv
<1> QED
  BY <1>2, <1>3

(* Steps that end the connection keep what the client has read. *)
LEMMA EndsEcho == IInv /\ EchoInv /\ (ListenerFails \/ ServerStops \/ ResetByPeer) => EchoInv'
<1> SUFFICES ASSUME IInv, EchoInv, ListenerFails \/ ServerStops \/ ResetByPeer PROVE EchoInv'
  OBVIOUS
<1>1. down' = <<>> /\ up' = <<>> /\ sent' = sent /\ heard' = heard /\ readbuf' = readbuf
  BY DEF ListenerFails, ServerStops, ResetByPeer
<1>2. heard \in Seq(Int) /\ down \in Seq(Int)
  BY DEF IInv, BytesOK
<1>3. Returned' = heard
  BY <1>1, <1>2, ConcatEmptySeq DEF Returned
<1>4. Returned = Returned' \o down
  BY <1>3 DEF Returned
<1> QED
  BY <1>1, <1>2, <1>3, <1>4, EchoKept DEF IInv

(* Steps that change no byte, but for those the server will not read any   *)
(* more.                                                                   *)
LEMMA MovesEcho ==
    ASSUME IInv, EchoInv,
           \/ Accept \/ iocp_conn_eventcb \/ conn_writecb \/ conn_eventcb
           \/ closesocket \/ ClientEOF \/ ClientError \/ DispatchReturns
           \/ Run \/ RunTestClient1
           \/ UNCHANGED vars
    PROVE  EchoInv'
<1>1. /\ sent' = sent /\ (up' = up \/ up' = <<>>) /\ heard' = heard /\ down' = down
      /\ readbuf' = readbuf
  BY DEF Accept, iocp_conn_eventcb, conn_writecb, conn_eventcb, closesocket, ClientEOF,
         ClientError, DispatchReturns, Run, RunTestClient1, Connect, vars
<1>2. Returned' = Returned
  BY <1>1 DEF Returned
<1> QED
  BY <1>1, <1>2, EchoSame DEF IInv

(* A recv of TestClient1. *)
LEMMA RecvEcho ==
    ASSUME IInv, EchoInv, NEW from, NEW to, Recv(from, to)
    PROVE  EchoInv'
<1> USE ChatAssumption
<1>1. sent' = sent /\ up' = up /\ readbuf' = readbuf
  BY DEF Recv
<1>2. Returned' = Returned
  <2>1. CASE Takes(RecvBuf)
    BY <2>1, TakesReturned DEF IInv
  <2>2. CASE UNCHANGED <<down, heard>>
    BY <2>2 DEF Returned
  <2> QED
    BY <2>1, <2>2 DEF Recv
<1> QED
  BY <1>1, <1>2, EchoSame DEF IInv

(* The messages of TestClient1. *)
LEMMA TestClientSendsEcho ==
    ASSUME IInv, EchoInv, SendAttention \/ SendLine
    PROVE  EchoInv'
<1> USE ChatAssumption
<1>1. Returned' = Returned /\ readbuf' = readbuf
  BY DEF SendAttention, SendLine, Returned
<1>2. PICK count \in Nat : Sends(Append(Letters(count), Zero))
  BY DEF SendAttention, SendLine
<1> DEFINE text == Append(Letters(count), Zero)
<1>3. BytesOK /\ SentInOrder
  BY DEF IInv, EchoInv
<1>4. text \in Seq(Int) /\ \A i \in 1..Len(text) : text[i] \in {0, Messages(sent) + 1}
  BY <1>3, LettersBytes, LettersNext
<1> QED
  BY <1>1, <1>2, <1>3, <1>4, EchoSends

(* IOCPClient reads and answers. *)
LEMMA ClientReadsEcho == IInv /\ EchoInv /\ ClientReads => EchoInv'
<1> SUFFICES ASSUME IInv, EchoInv, ClientReads PROVE EchoInv'
  OBVIOUS
<1> USE ChatAssumption
<1>1. BytesOK /\ SentInOrder /\ Len(down) \in Nat
  BY DEF IInv, EchoInv, BytesOK
<1>2. Returned' = Returned /\ readbuf' = readbuf
  BY <1>1, TakesReturned DEF ClientReads
<1> DEFINE text == Letters(MAX_TO_READ_EVER)
<1>3. text \in Seq(Int) /\ \A i \in 1..Len(text) : text[i] \in {0, Messages(sent) + 1}
  BY <1>1, LettersBytes, LettersNext
<1> QED
  BY <1>1, <1>2, <1>3, EchoSends DEF ClientReads, WriteData

(* Every step of the server, of the client and of the network. *)
LEMMA NextEcho == IInv /\ EchoInv /\ [Next]_vars => EchoInv'
<1> SUFFICES ASSUME IInv, EchoInv, [Next]_vars PROVE EchoInv'
  OBVIOUS
<1>1. CASE Server
  BY <1>1, ServerReadsEcho, GreetEcho, EndsEcho, MovesEcho DEF Server
<1>2. CASE RunTestClient1 \/ UNCHANGED vars
  BY <1>2, MovesEcho
<1>3. CASE TestClient1
  BY <1>3, RecvEcho, TestClientSendsEcho, MovesEcho DEF TestClient1
<1>4. CASE IOCPClient
  BY <1>4, ClientReadsEcho, MovesEcho DEF IOCPClient
<1>5. CASE ServerStops \/ ResetByPeer
  BY <1>5, EndsEcho
<1> QED
  BY <1>1, <1>2, <1>3, <1>4, <1>5 DEF Next, Client

(* An echo of what was sent in order is in order, and has no letter twice. *)
LEMMA EchoInvents == IInv /\ EchoInv => NothingInvented
<1> SUFFICES ASSUME IInv, EchoInv, readbuf # "overread" PROVE OnlyReturns
  BY DEF NothingInvented
<1>1. /\ Returned \in Seq(Int) /\ sent \in Seq(Int) /\ Len(sent) - Len(up) \in 0..Len(sent)
      /\ Messages(sent) \in Nat
  BY EchoBytes, MessagesNat DEF IInv, EchoInv
<1>2. InOrder(sent, Messages(sent)) /\ Echoes(Returned, sent, Len(sent) - Len(up))
  BY DEF EchoInv, SentInOrder
<1> QED
  BY <1>1, <1>2, EchoCounted DEF OnlyReturns

(* Until iocp_conn_readcb reads beyond a full readbuf, every letter that    *)
(* comes back has a place of its own among the bytes the server has read,  *)
(* in the order in which they were sent, however reads and receives split  *)
(* them and whatever a broken connection loses.                            *)
THEOREM EchoInvariant == Spec => []EchoInv
<1>1. Init => IInv /\ EchoInv
  BY InitIInv, InitEcho
<1>2. (IInv /\ EchoInv) /\ [Next]_vars => (IInv /\ EchoInv)'
  BY NextIInv, NextEcho
<1> QED
  BY <1>1, <1>2, PTL DEF Spec

(* iocp_conn_readcb clears readbuf and stops at its first zero: until one  *)
(* that is full makes it read on behind it, no letter comes back that was  *)
(* not sent, none twice, and none before an earlier one.                   *)
THEOREM NothingInventedThm == Spec => []NothingInvented
  BY ChatInvariant, EchoInvariant, EchoInvents, PTL

=============================================================================
