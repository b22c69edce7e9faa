---------------------------- MODULE Conversation ----------------------------
(***************************************************************************)
(* A client and its thread in the server talk over one connection, byte by *)
(* byte.  The thread keeps one rio_t for the connection and answers a line *)
(* before it reads the next.  The client is one of the repository's        *)
(* programs, which wait for each response and read it with a fresh rio_t,  *)
(* or another program of the same protocol that sends ahead and keeps its  *)
(* rio_t.  Either process can die at any moment, in the middle of a line   *)
(* too.  What the requests do is in BasicServer.                           *)
(***************************************************************************)
EXTENDS Rio

CONSTANTS MaxRequests,   \* bound on the requests of a client
          Lengths        \* the lengths of lines

\* A request has at most MAX_ENCODED_LEN characters, fewer than the thread's
\* rio_readlineb is told to accept.
ASSUME ConversationAssumption ==
    /\ MaxRequests \in Nat
    /\ Lengths \subseteq Nat \ {0}
    /\ \A len \in Lengths : len < maxlen["server"]

VARIABLES mode,               \* "program": of the repository; "ahead": sends ahead
          request,            \* the request the client has sent last, or "none"
          sent,               \* the number of the request whose sending has begun
          asked,              \* the number of the request sent to the newline
          served,             \* the number of the request carried out last
          heard,              \* the number of the request answered last
          loop_in_progress,   \* the member of ClientConnection
          lock,               \* the mutex the handler needs: "none" so far,
                              \* "waiting" for it, or "taken"
          killed              \* the ends whose process was killed

counters == <<sent, asked, served, heard>>
talk == <<mode, request, counters, loop_in_progress, lock, killed>>

ConversationInit ==
    /\ RioInit
    /\ mode \in {"program", "ahead"}
    /\ request = "none"
    /\ sent = 0 /\ asked = 0 /\ served = 0 /\ heard = 0
    /\ loop_in_progress = TRUE /\ lock = "none"
    /\ killed = {}

Last(text) == text[Len(text)]

-----------------------------------------------------------------------------
(* The client: login_operation and its like.                                 *)

\* BYE is the last request of every program.
send_request ==
    /\ sent < MaxRequests /\ request # "BYE"
    /\ call["client"] = "none"
    /\ mode = "program" => heard = sent
    /\ \E len \in Lengths, op \in {"REQUEST", "BYE"} :
          /\ mode = "program" /\ sent + 1 = MaxRequests => op = "BYE"
          /\ rio_writen("client", Text(op, sent + 1, len))
          /\ request' = op
    /\ sent' = sent + 1
    /\ UNCHANGED <<mode, asked, served, heard, loop_in_progress, lock, killed>>

await_response ==
    /\ heard < sent /\ call["client"] = "none"
    /\ IF mode = "program" THEN rio_readinitb_readlineb("client") ELSE rio_readlineb("client")
    /\ UNCHANGED talk

\* A line without its newline makes decode throw, which ends the process; a
\* program ends at a refusal and after BYE.
hear_response ==
    /\ call["client"] = "line"
    /\ LET b == Last(usrbuf["client"])
       IN  IF ~b.newline
           THEN close("client") /\ UNCHANGED heard
           ELSE /\ heard' = b.line
                /\ IF mode = "program" /\ (b.op # "OK" \/ request = "BYE")
                   THEN close("client")
                   ELSE /\ call' = [call EXCEPT !["client"] = "none"]
                        /\ UNCHANGED <<open, reset, out, net, rio_buf, usrbuf>>
    /\ UNCHANGED <<mode, request, sent, asked, served, loop_in_progress, lock, killed>>

\* "could not read server's response"
give_up ==
    /\ call["client"] = "end"
    /\ close("client")
    /\ UNCHANGED talk

-----------------------------------------------------------------------------
(* The thread: chat_with_client.                                             *)

await_request ==
    /\ loop_in_progress /\ call["server"] = "none"
    /\ rio_readlineb("server")
    /\ UNCHANGED talk

\* Mutant: a line is taken for a request although its newline has not come.
serve_partial ==
    LET b == Last(usrbuf["server"])
    IN  /\ call["server"] = "line"
        /\ \E len \in Lengths : rio_writen("server", Text("OK", b.line, len))
        /\ served' = b.line
        /\ loop_in_progress' = (b.op # "BYE")
        /\ UNCHANGED <<mode, request, sent, asked, heard, lock, killed>>

\* Mutant: the socket is closed, then the answer is written.
serve_after_close ==
    LET b == Last(usrbuf["server"])
    IN  /\ call["server"] = "line"
        /\ IF b.op = "BYE" THEN close("server")
           ELSE \E len \in Lengths : rio_writen("server", Text("OK", b.line, len))
        /\ served' = b.line
        /\ loop_in_progress' = (b.op # "BYE")
        /\ UNCHANGED <<mode, request, sent, asked, heard, lock, killed>>

\* Mutant: a request that fails is answered by its handler and by the catch.
serve_twice ==
    LET b == Last(usrbuf["server"])
    IN  /\ call["server"] = "line"
        /\ \E len \in Lengths : rio_writen("server",
               Text("OK", b.line, len) \o Text("REFUSED", b.line, len))
        /\ served' = b.line
        /\ loop_in_progress' = (b.op # "BYE")
        /\ UNCHANGED <<mode, request, sent, asked, heard, lock, killed>>

\* A SET, GET or CREATE needs a mutex, and finds it locked.
wait_for_lock ==
    /\ call["server"] = "line" /\ lock = "none"
    /\ Last(usrbuf["server"]).newline /\ Last(usrbuf["server"]).op = "REQUEST"
    /\ lock' = "waiting"
    /\ UNCHANGED <<rio, mode, request, counters, loop_in_progress, killed>>

\* Whoever had the mutex has unlocked it, which need never happen: its client
\* may stay in a transaction.
get_lock ==
    /\ call["server"] = "line" /\ lock = "waiting"
    /\ lock' = "taken"
    /\ UNCHANGED <<rio, mode, request, counters, loop_in_progress, killed>>

\* Every request is answered with one line.  A line that does not decode is
\* refused; BYE and a request before LOGIN end the loop.
serve ==
    LET b == Last(usrbuf["server"])
    IN  /\ call["server"] = "line" /\ lock # "waiting"
        /\ \E len \in Lengths, op \in {"OK", "REFUSED"} :
              /\ rio_writen("server", Text(op, b.line, len))
              /\ loop_in_progress' \in BOOLEAN
              /\ ~b.newline => op = "REFUSED" /\ loop_in_progress'
              /\ b.newline /\ b.op = "BYE" => ~loop_in_progress'
              /\ op = "OK" /\ b.op # "BYE" => loop_in_progress'
        /\ served' = IF b.newline THEN b.line ELSE served
        /\ lock' = "none"
        /\ UNCHANGED <<mode, request, sent, asked, heard, killed>>

\* Mutant: the loop goes on after the end of the input.
end_ignored ==
    /\ call["server"] = "end"
    /\ call' = [call EXCEPT !["server"] = "none"]
    /\ UNCHANGED <<open, reset, out, net, rio_buf, usrbuf, talk>>

\* Nothing is read: the loop ends.
end_of_input ==
    /\ call["server"] = "end"
    /\ call' = [call EXCEPT !["server"] = "none"]
    /\ loop_in_progress' = FALSE
    /\ UNCHANGED <<open, reset, out, net, rio_buf, usrbuf, mode, request, counters, lock, killed>>

close_connection ==
    /\ ~loop_in_progress /\ call["server"] = "none"
    /\ close("server")
    /\ UNCHANGED talk

-----------------------------------------------------------------------------
(* Either end.                                                               *)

Write(e) ==
    /\ write(e)
    /\ asked' = IF e = "client" /\ out'[e] = <<>> THEN sent ELSE asked
    /\ UNCHANGED <<mode, request, sent, served, heard, loop_in_progress, lock, killed>>

WriteLost(e) == write_lost(e) /\ UNCHANGED talk

Read(e) == Reading(e) /\ UNCHANGED talk

\* A signal, another thread's trap or exception, SIGPIPE.
Kill(e) ==
    /\ close(e)
    /\ killed' = killed \cup {e}
    /\ UNCHANGED <<mode, request, counters, loop_in_progress, lock>>

Over == (\A e \in Ends : ~open[e]) /\ UNCHANGED <<rio, talk>>

ClientStep ==
    \/ send_request \/ await_response \/ hear_response \/ give_up
    \/ Write("client") \/ WriteLost("client") \/ Read("client")

ServerStep ==
    \/ await_request \/ serve \/ end_of_input \/ close_connection
    \/ Write("server") \/ WriteLost("server") \/ Read("server")

ConversationNext ==
    \/ ClientStep \/ ServerStep
    \/ wait_for_lock \/ get_lock
    \/ \E e \in Ends : Kill(e)
    \/ Over

\* The thread is scheduled again and again, and so is a program of the
\* repository; nothing is assumed of other clients, nor of the mutex.
ConversationSpec ==
    /\ ConversationInit
    /\ [][ConversationNext]_<<rio, talk>>
    /\ WF_<<rio, talk>>(ServerStep)
    /\ WF_<<rio, talk>>(mode = "program" /\ ClientStep)

-----------------------------------------------------------------------------
(* Properties.                                                               *)

\* What an end will read, from the line it is reading to what its peer is
\* still writing.
Pipe(e) ==
    (IF call[e] \in {"readlineb", "line"} THEN usrbuf[e] ELSE <<>>)
    \o rio_buf[e] \o net[e] \o out[Peer(e)]

Follows(a, b) ==
    IF a.newline THEN b.line = a.line + 1 /\ b.pos = 1
                 ELSE b.line = a.line /\ b.pos = a.pos + 1

\* Short reads, short writes and buffers at their limit neither lose, repeat
\* nor reorder a byte: what an end has still to read begins with the first
\* byte of the line after the last it has dealt with, and goes on byte after
\* byte and line after line (rio_writen, rio_read, rio_readlineb).
InOrder ==
    \A e \in Ends : open[e] =>
        LET pipe == Pipe(e)
            done == IF e = "server" THEN served ELSE heard
        IN  /\ pipe # <<>> => pipe[1].line = done + 1 /\ pipe[1].pos = 1
            /\ \A i \in 1..(Len(pipe) - 1) : Follows(pipe[i], pipe[i + 1])

\* The programs make a fresh rio_t for every response (login_operation and its
\* like), which drops what the last one had read ahead: there never is anything.
NothingDropped ==
    mode = "program" /\ call["client"] = "none" => rio_buf["client"] = <<>>

\* A program that waits for a response gets one unless the server's process
\* dies: the thread writes every answer, the one to BYE too, before it closes,
\* and closes with nothing unread that would make the kernel discard the
\* answer (chat_with_client, write_ok).
AnswerArrives ==
    mode = "program" /\ call["client"] = "end" => "server" \in killed

Lines == INSTANCE Exchange

\* Requests are carried out only when they have come to the newline, in order
\* and once, and responses are heard in order: a connection of bytes is a
\* connection of lines (decode's check for the newline, the rio buffers).
ImplementsExchange == Lines!Spec

\* The thread waits for a mutex.
Waits == call["server"] = "line" /\ lock = "waiting"

\* Every program of the repository comes to its end, unless its thread waits
\* for ever for a table that another client's transaction keeps: over the
\* connection it and the thread never wait for each other, also when the
\* kernel keeps fewer bytes than a line has.
ProgramEnds == []<>~Waits => [](mode = "program" => <>~open["client"])

\* A client that is gone is noticed: wherever it was in a line, and whatever
\* the thread was reading or writing, the thread closes its socket, unless it
\* waits for ever for a mutex (chat_with_client's n <= 0, rio_writen to a
\* closed socket; Table::lock has no timeout and does not look at the socket).
ServerLetsGo == []<>~Waits => (~open["client"] ~> ~open["server"])
=============================================================================
