-------------------------------- MODULE Chat --------------------------------
(***************************************************************************)
(* A client of this repository (IOCPClient.cpp, TestClient.cpp) talking to *)
(* one of its servers (EventServer.cpp) over a TCP connection: the two     *)
(* protocols, what each side does with the bytes it reads, and how a       *)
(* conversation ends.  The library between them is modelled elsewhere;     *)
(* here a bufferevent is the bytes that are on their way.                  *)
(*                                                                         *)
(* A byte is 0, the number of the client message it is a letter of, or one *)
(* of the three kinds of byte below.  Lengths are scaled down: what        *)
(* matters is whether a message, a read and a buffer are equally long.     *)
(***************************************************************************)
EXTENDS Integers, Sequences, FiniteSets, SequencesExt

CONSTANTS Clients, Servers,  \* the programs that are run
          MAX_TO_READ_EVER,  \* bytes of readbuf, of a read, and of what WriteData sends
          RecvBuf,           \* bytes of the recvBuf of TestClient1
          MaxTalk,           \* bound: letters of a line typed in
          Rounds,            \* bound: lines (500 in the code)
          MaxMessages        \* bound: messages of IOCPClient

ASSUME ChatAssumption ==
    /\ Clients \subseteq {"TestClient1", "IOCPClient"}
    /\ Servers \subseteq {"EventIOCPServer", "EventHelloServer"}
    /\ {MAX_TO_READ_EVER, RecvBuf, Rounds} \subseteq Nat \ {0}
    /\ {MaxTalk, MaxMessages} \subseteq Nat

Zero == 0
Hello == -1       \* a byte of MESSAGE
Frame == -2       \* a byte the server puts around a text
Other == -3       \* any other byte

VARIABLES
    client, server,   \* the two programs
    connection,       \* "none", "open", "reset" or "refused"
    accepted,         \* where the server is: "no", "enabled", "greeted", "closed"
    place,            \* where the client is
    n,                \* rounds that TestClient1 has left
    up, down,         \* bytes on their way to the server and to the client
    sent,             \* every byte the client has sent
    heard,            \* every byte the client has read
    readbuf           \* a history: "overread" once more was read from readbuf than it holds

vars == <<client, server, connection, accepted, place, n, up, down, sent, heard, readbuf>>

MESSAGE == <<Hello, Hello>>

Messages(bytes) == Cardinality(ToSet(bytes) \ {Zero})

Init ==
    /\ client \in Clients /\ server \in Servers
    /\ connection = "none" /\ accepted = "no" /\ place = "connect" /\ n = Rounds
    /\ up = <<>> /\ down = <<>> /\ sent = <<>> /\ heard = <<>>
    /\ readbuf = "ended"

-----------------------------------------------------------------------------
(* The servers. *)

(* iocp_listener_cb and listener_cb up to the write of the greeting; the   *)
(* former has enabled reading by then, and the workers may read.           *)
Accept ==
    /\ connection = "open" /\ accepted = "no"
    /\ accepted' = "enabled"
    /\ UNCHANGED <<client, server, readbuf, connection, place, n, up, down, sent, heard>>

(* bufferevent_write(bev, MESSAGE, strlen(MESSAGE)), without a zero.        *)
Greet ==
    /\ accepted = "enabled"
    /\ accepted' = "greeted"
    /\ down' = IF connection = "open" THEN down \o MESSAGE ELSE down
    /\ UNCHANGED <<client, server, readbuf, connection, place, n, up, sent, heard>>

(* bufferevent_socket_new fails: event_base_loopbreak ends the dispatch,   *)
(* and the connection goes with the process.                               *)
ListenerFails ==
    /\ connection = "open" /\ accepted = "no"
    /\ connection' = "reset" /\ accepted' = "closed" /\ down' = <<>> /\ up' = <<>>
    /\ UNCHANGED <<client, server, readbuf, place, n, sent, heard>>

(* A mutant: readbuf keeps what the callback before left in it.            *)
TextsKept(bytes) == {SubSeq(sent, 1, Len(bytes))}

(* What is behind the end of readbuf may be any byte: a letter of a message *)
(* that was sent or of one that was not, or something else.                *)
Beyond == {Other} \cup 1..(Messages(sent) + 1)

(* a.append(readbuf): the bytes up to the first zero of the buffer, which  *)
(* was cleared.  A read that fills it leaves no zero, and what follows the *)
(* buffer may be appended too.                                             *)
Texts(bytes) ==
    IF Contains(bytes, Zero)
    THEN {SubSeq(bytes, 1, i - 1) : i \in {i \in 1..Len(bytes) :
              bytes[i] = Zero /\ \A j \in 1..(i - 1) : bytes[j] # Zero}}
    ELSE IF Len(bytes) < MAX_TO_READ_EVER THEN {bytes}
    ELSE {bytes} \cup {Append(bytes, b) : b \in Beyond}

(* The iocp_conn_readcb of the server, for the k bytes one read brought;   *)
(* no read brings more than readbuf holds.                                 *)
iocp_conn_readcb(k) ==
    /\ server = "EventIOCPServer" /\ connection = "open" /\ accepted \in {"enabled", "greeted"}
    /\ k =< Len(up)
    /\ up' = SubSeq(up, k + 1, Len(up))
    /\ \E text \in Texts(SubSeq(up, 1, k)) :
          /\ down' = down \o <<Frame>> \o text \o <<Frame, Zero>>
          /\ readbuf' = IF Len(text) > k THEN "overread" ELSE readbuf
    /\ UNCHANGED <<client, server, connection, accepted, place, n, sent, heard>>

(* iocp_conn_eventcb of the server: the client has closed the connection,  *)
(* or it broke.  A worker may run it before the listener's callback writes *)
(* the greeting, which then goes to a bufferevent that was freed.          *)
iocp_conn_eventcb ==
    /\ server = "EventIOCPServer" /\ accepted \in {"enabled", "greeted"}
    /\ connection = "reset" \/ (place = "done" /\ up = <<>>)
    /\ accepted' = "closed" /\ up' = <<>>
    /\ UNCHANGED <<client, server, readbuf, connection, place, n, down, sent, heard>>

(* conn_writecb of EventHelloServer: the greeting was flushed, and         *)
(* bufferevent_free closes the socket.                                     *)
conn_writecb ==
    /\ server = "EventHelloServer" /\ connection = "open" /\ accepted = "greeted"
    /\ accepted' = "closed"
    /\ UNCHANGED <<client, server, readbuf, connection, place, n, up, down, sent, heard>>

(* conn_eventcb of EventHelloServer: writing the greeting failed.          *)
conn_eventcb ==
    /\ server = "EventHelloServer" /\ connection = "reset" /\ accepted = "greeted"
    /\ accepted' = "closed"
    /\ UNCHANGED <<client, server, readbuf, connection, place, n, up, down, sent, heard>>

-----------------------------------------------------------------------------
(* The connection. *)

(* The server stops (signal_cb, or Run returns) and its process closes     *)
(* what is open, or the network fails.                                     *)
ServerStops ==
    /\ connection = "open" /\ accepted # "closed"
    /\ connection' = "reset" /\ down' = <<>> /\ up' = <<>>
    /\ UNCHANGED <<client, server, readbuf, accepted, place, n, sent, heard>>

(* Bytes that reach a closed socket are answered by a reset, which may     *)
(* overtake the greeting.                                                  *)
ResetByPeer ==
    /\ connection = "open" /\ accepted = "closed" /\ up # <<>>
    /\ connection' = "reset" /\ up' = <<>> /\ down' = <<>>
    /\ UNCHANGED <<client, server, readbuf, accepted, place, n, sent, heard>>

-----------------------------------------------------------------------------
(* TestClient1, with blocking calls whose results it does not look at.     *)

Connect(outcome, next) ==
    /\ place = "connect"
    /\ connection' = outcome
    /\ place' = next
    /\ UNCHANGED <<client, server, readbuf, accepted, n, up, down, sent, heard>>

(* Reading: some of the bytes on their way, or the end of the stream.      *)
Takes(most) ==
    \E k \in 1..most :
        /\ k =< Len(down)
        /\ heard' = heard \o SubSeq(down, 1, k)
        /\ down' = SubSeq(down, k + 1, Len(down))

AtEnd == down = <<>> /\ (connection # "open" \/ accepted = "closed")

(* The first recv, before anything was sent, the second after the message  *)
(* that announces the client, and one after every line.                    *)
Recv(from, to) ==
    /\ client = "TestClient1" /\ place = from
    /\ Takes(RecvBuf) \/ (AtEnd /\ UNCHANGED <<down, heard>>)
    /\ place' = to
    /\ UNCHANGED <<client, server, readbuf, connection, accepted, n, up, sent>>

(* send(sockClient, talk, strlen(talk) + 1, 0): the text with its zero.    *)
Sends(text) ==
    IF connection = "open" THEN up' = up \o text /\ sent' = sent \o text
    ELSE UNCHANGED <<up, sent>>

Letters(count) == [i \in 1..count |-> Messages(sent) + 1]

SendAttention ==
    /\ client = "TestClient1" /\ place = "attention"
    /\ Sends(Append(Letters(1), Zero))
    /\ place' = "announced"
    /\ UNCHANGED <<client, server, readbuf, connection, accepted, n, down, heard>>

(* A mutant: the zero is not sent, so that an empty line is nothing.       *)
SendLineBare ==
    /\ client = "TestClient1" /\ place = "talk" /\ n > 0
    /\ \E count \in 0..MaxTalk : Sends(Letters(count))
    /\ n' = n - 1
    /\ place' = "answer"
    /\ UNCHANGED <<client, server, readbuf, connection, accepted, down, heard>>

SendLine ==
    /\ client = "TestClient1" /\ place = "talk" /\ n > 0
    /\ \E count \in 0..MaxTalk : Sends(Append(Letters(count), Zero))
    /\ n' = n - 1
    /\ place' = "answer"
    /\ UNCHANGED <<client, server, readbuf, connection, accepted, down, heard>>

closesocket ==
    /\ client = "TestClient1" /\ place = "talk" /\ n = 0
    /\ place' = "done"
    /\ UNCHANGED <<client, server, readbuf, connection, accepted, n, up, down, sent, heard>>

TestClient1 ==
    \/ Recv("greeting", "attention") \/ SendAttention \/ Recv("announced", "talk")
    \/ SendLine \/ Recv("answer", "talk") \/ closesocket

-----------------------------------------------------------------------------
(* IOCPClient, whose callbacks run in the loop of event_base_dispatch.     *)

(* WriteData: MAX_TO_READ_EVER letters, and no zero.                       *)
WriteData == Letters(MAX_TO_READ_EVER)

(* iocp_conn_readcb of the client: it reads everything, then starts a      *)
(* thread that writes, and joins it.                                       *)
ClientReads ==
    /\ client = "IOCPClient" /\ place = "loop" /\ Messages(sent) < MaxMessages
    /\ Takes(Len(down))
    /\ Sends(WriteData)
    /\ UNCHANGED <<client, server, readbuf, connection, accepted, place, n>>

(* iocp_conn_eventcb of the client after the end of the stream: reading is *)
(* disabled, the bufferevent is kept, and nothing is written any more.     *)
ClientEOF ==
    /\ client = "IOCPClient" /\ place = "loop" /\ AtEnd /\ connection = "open"
    /\ place' = "eof"
    /\ UNCHANGED <<client, server, readbuf, connection, accepted, n, up, down, sent, heard>>

(* The same after an error, of the connect too.                            *)
ClientError ==
    /\ client = "IOCPClient" /\ place \in {"loop", "eof"}
    /\ connection \in {"reset", "refused"}
    /\ place' = "done"
    /\ UNCHANGED <<client, server, readbuf, connection, accepted, n, up, down, sent, heard>>

(* event_base_dispatch returns: no event is left once the output has gone. *)
DispatchReturns ==
    /\ client = "IOCPClient" /\ place = "eof" /\ up = <<>>
    /\ place' = "done"
    /\ UNCHANGED <<client, server, readbuf, connection, accepted, n, up, down, sent, heard>>

(* A mutant: the client writes as soon as it is connected.                 *)
RunWritesFirst ==
    /\ client = "IOCPClient" /\ place = "connect"
    /\ connection' = "open" /\ place' = "loop"
    /\ up' = WriteData /\ sent' = WriteData
    /\ UNCHANGED <<client, server, readbuf, accepted, n, down, heard>>

(* bufferevent_socket_connect; iocp_conn_eventcb only prints that the      *)
(* connection is there.                                                    *)
Run == client = "IOCPClient" /\ \E c \in {"open", "refused"} : Connect(c, "loop")

(* The result of connect is not looked at.                                 *)
RunTestClient1 == client = "TestClient1" /\ \E c \in {"open", "refused"} : Connect(c, "greeting")

IOCPClient == Run \/ ClientReads \/ ClientEOF \/ ClientError \/ DispatchReturns

-----------------------------------------------------------------------------
Server ==
    \/ Accept \/ Greet \/ ListenerFails
    \/ \E k \in 1..MAX_TO_READ_EVER : iocp_conn_readcb(k)
    \/ iocp_conn_eventcb \/ conn_writecb \/ conn_eventcb

Client == RunTestClient1 \/ TestClient1 \/ IOCPClient

Next == Server \/ Client \/ ServerStops \/ ResetByPeer

(* Both programs are scheduled, the user goes on typing, and a reset       *)
(* arrives.                                                                *)
Spec == Init /\ [][Next]_vars /\ WF_vars(Server) /\ WF_vars(Client) /\ WF_vars(ResetByPeer)

-----------------------------------------------------------------------------
(* Properties *)

(* iocp_listener_cb enables reading before it writes the greeting, and the *)
(* workers answer at once: still the first bytes a client of this          *)
(* repository reads are the greeting, as both wait for it before they      *)
(* send.                                                                   *)
GreetingFirst ==
    LET all == heard \o down
    IN  \A i \in 1..Len(all) : i =< Len(MESSAGE) => all[i] = Hello

(* An inductive strengthening of it.  The bytes are typed; before the      *)
(* greeting nothing was sent in either direction, and TestClient1 went     *)
(* past its first recv only because the connection is gone; on an open     *)
(* connection that was greeted the whole greeting is heard or on its way,  *)
(* so that whatever follows is no part of it.                              *)
BytesOK == {up, down, sent, heard} \subseteq Seq(Int)
Ungreeted == accepted \in {"no", "enabled"}
QuietBefore == Ungreeted => up = <<>> /\ down = <<>> /\ heard = <<>>
WaitsForGreeting ==
    /\ place = "connect" => connection = "none" /\ accepted = "no"
    /\ client = "TestClient1" /\ Ungreeted /\ connection = "open" => place \in {"connect", "greeting"}
GreetedWhole ==
    connection = "open" /\ accepted = "greeted" => Len(heard) + Len(down) >= Len(MESSAGE)
StartsWithGreeting ==
    /\ \A i \in 1..Len(heard) : i =< Len(MESSAGE) => heard[i] = Hello
    /\ \A i \in 1..Len(down) : Len(heard) + i =< Len(MESSAGE) => down[i] = Hello
IInv ==
    /\ BytesOK
    /\ QuietBefore
    /\ WaitsForGreeting
    /\ GreetedWhole
    /\ StartsWithGreeting

(* The server answers with what it was told: the letters that come back,   *)
(* however reads split and join the messages, are letters the client sent, *)
(* in that order, and none comes back twice.  "char                        *)
(* readbuf[MAX_TO_READ_EVER] = {0}" is to end the text with a zero; a full *)
(* buffer has none, so the code does not keep OnlyReturns as it stands.    *)
Returned == heard \o down
LettersOf(bytes) == {i \in 1..Len(bytes) : bytes[i] > 0}
Places(bytes, m) == {i \in 1..Len(bytes) : bytes[i] = m}
OnlyReturns ==
    /\ \A i \in LettersOf(Returned) :
          Cardinality(Places(Returned, Returned[i])) =< Cardinality(Places(sent, Returned[i]))
    /\ \A i, j \in LettersOf(Returned) : i < j => Returned[i] =< Returned[j]

(* It does as long as iocp_conn_readcb has not read beyond the end of a    *)
(* readbuf that was filled.                                                *)
NothingInvented == readbuf # "overread" => OnlyReturns

(* An inductive strengthening of it: what the server has not read is the   *)
(* end of what was sent, the messages were sent one after the other, and   *)
(* every letter that came back has a place of its own, in the same order,  *)
(* in what the server has read (f says which).                             *)
UpIsTail ==
    /\ Len(up) =< Len(sent)
    /\ \A i \in 1..Len(up) : up[i] = sent[Len(sent) - Len(up) + i]
InOrder(bytes, last) ==
    /\ \A i \in 1..Len(bytes) : bytes[i] \in 0..last
    /\ \A m \in 1..last : \E i \in 1..Len(bytes) : bytes[i] = m
    /\ \A i, j \in LettersOf(bytes) : i < j => bytes[i] =< bytes[j]
SentInOrder == InOrder(sent, Messages(sent))
IsEcho(back, bytes, f) ==
    /\ \A i, j \in LettersOf(back) : i < j => f[i] < f[j]
    /\ \A i \in LettersOf(back) : bytes[f[i]] = back[i]
Echoes(back, bytes, read) ==
    \E f \in [LettersOf(back) -> 1..read] : IsEcho(back, bytes, f)
EchoInv ==
    /\ UpIsTail
    /\ SentInOrder
    /\ readbuf # "overread" => Echoes(Returned, sent, Len(sent) - Len(up))

(* No client waits for ever: every recv of TestClient1 is answered or      *)
(* fails, however the answers were split, so that it says all its lines;   *)
(* and event_base_dispatch of IOCPClient returns once the server has       *)
(* closed the connection or it broke.                                      *)
ClientEnds ==
    (\/ client = "TestClient1" \/ server = "EventHelloServer"
     \/ connection \in {"reset", "refused"}) ~> place = "done"

=============================================================================
