-------------------------------- MODULE Rio --------------------------------
(***************************************************************************)
(* The two ends of a connection and the buffered input and output of       *)
(* csapp.c they use: rio_writen, rio_readinitb and rio_readlineb over a    *)
(* TCP socket.  Of a byte it matters which line it belongs to, where it    *)
(* stands there and whether it is the newline.  A system call that EINTR   *)
(* interrupts is repeated and changes nothing.                             *)
(***************************************************************************)
EXTENDS Naturals, Sequences

CONSTANTS RIO_BUFSIZE,   \* the size of rio_t's buffer
          SocketBuffer,  \* how many bytes the kernel keeps for a reader
          maxlen         \* the third argument of an end's rio_readlineb

Ends == {"client", "server"}

ASSUME RioAssumption ==
    /\ RIO_BUFSIZE \in Nat \ {0}
    /\ SocketBuffer \in Nat \ {0}
    /\ maxlen \in [Ends -> Nat \ {0, 1}]

VARIABLES open,      \* the end has not closed its socket
          reset,     \* the peer has refused bytes, or closed with bytes unread
          out,       \* what rio_writen has not written yet
          net,       \* the bytes on their way to an end
          rio_buf,   \* the unread bytes in the end's rio_t
          usrbuf,    \* the line rio_readlineb has read so far
          call       \* the call an end is in, or what it has returned

rio == <<open, reset, out, net, rio_buf, usrbuf, call>>

Peer(e) == IF e = "client" THEN "server" ELSE "client"

RioInit ==
    /\ open    = [e \in Ends |-> TRUE]
    /\ reset   = [e \in Ends |-> FALSE]
    /\ out     = [e \in Ends |-> <<>>]
    /\ net     = [e \in Ends |-> <<>>]
    /\ rio_buf = [e \in Ends |-> <<>>]
    /\ usrbuf  = [e \in Ends |-> <<>>]
    /\ call    = [e \in Ends |-> "none"]

\* The text of line i, a byte for each of its len characters.
Text(op, i, len) ==
    [p \in 1..len |-> [line |-> i, pos |-> p, newline |-> p = len, op |-> op]]

InCall(e) == call[e] \in {"writen", "readlineb"}

-----------------------------------------------------------------------------
(* Writing.                                                                  *)

rio_writen(e, text) ==
    /\ open[e] /\ ~InCall(e)
    /\ out' = [out EXCEPT ![e] = text]
    /\ call' = [call EXCEPT ![e] = "writen"]
    /\ UNCHANGED <<open, reset, net, rio_buf, usrbuf>>

\* Mutant: a short write is taken for a complete one.
write_once(e) ==
    /\ call[e] = "writen" /\ open[e] /\ open[Peer(e)]
    /\ \E n \in 1..Len(out[e]) :
          /\ Len(net[Peer(e)]) + n <= SocketBuffer
          /\ net' = [net EXCEPT ![Peer(e)] = @ \o SubSeq(out[e], 1, n)]
    /\ out' = [out EXCEPT ![e] = <<>>]
    /\ call' = [call EXCEPT ![e] = "none"]
    /\ UNCHANGED <<open, reset, rio_buf, usrbuf>>

\* The kernel takes some of the bytes, as many as it has room for.
write(e) ==
    /\ call[e] = "writen" /\ open[e] /\ open[Peer(e)]
    /\ \E n \in 1..Len(out[e]) :
          /\ Len(net[Peer(e)]) + n <= SocketBuffer
          /\ net' = [net EXCEPT ![Peer(e)] = @ \o SubSeq(out[e], 1, n)]
          /\ out' = [out EXCEPT ![e] = SubSeq(@, n + 1, Len(@))]
          /\ call' = [call EXCEPT ![e] = IF n = Len(out[e]) THEN "none" ELSE @]
    /\ UNCHANGED <<open, reset, rio_buf, usrbuf>>

\* The peer has closed: the bytes are gone and the connection is reset.
write_lost(e) ==
    /\ call[e] = "writen" /\ open[e] /\ ~open[Peer(e)]
    /\ out' = [out EXCEPT ![e] = <<>>]
    /\ reset' = [reset EXCEPT ![e] = TRUE]
    /\ call' = [call EXCEPT ![e] = "none"]
    /\ UNCHANGED <<open, net, rio_buf, usrbuf>>

\* The end closes its socket, or dies; unread input resets the connection.
close(e) ==
    /\ open[e]
    /\ open' = [open EXCEPT ![e] = FALSE]
    /\ reset' = [reset EXCEPT ![Peer(e)] = @ \/ net[e] # <<>>]
    /\ out' = [out EXCEPT ![e] = <<>>]
    /\ net' = [net EXCEPT ![e] = <<>>]
    /\ rio_buf' = [rio_buf EXCEPT ![e] = <<>>]
    /\ usrbuf' = [usrbuf EXCEPT ![e] = <<>>]
    /\ call' = [call EXCEPT ![e] = "none"]

-----------------------------------------------------------------------------
(* Reading.                                                                  *)

rio_readlineb(e) ==
    /\ open[e] /\ ~InCall(e)
    /\ usrbuf' = [usrbuf EXCEPT ![e] = <<>>]
    /\ call' = [call EXCEPT ![e] = "readlineb"]
    /\ UNCHANGED <<open, reset, out, net, rio_buf>>

\* A fresh rio_t for the descriptor, then a line from it.
rio_readinitb_readlineb(e) ==
    /\ open[e] /\ ~InCall(e)
    /\ rio_buf' = [rio_buf EXCEPT ![e] = <<>>]
    /\ usrbuf' = [usrbuf EXCEPT ![e] = <<>>]
    /\ call' = [call EXCEPT ![e] = "readlineb"]
    /\ UNCHANGED <<open, reset, out, net>>

\* rio_read fills its empty buffer with some of the bytes that have come.
rio_read(e) ==
    /\ call[e] = "readlineb" /\ rio_buf[e] = <<>>
    /\ \E n \in 1..Len(net[e]) :
          /\ n <= RIO_BUFSIZE
          /\ rio_buf' = [rio_buf EXCEPT ![e] = SubSeq(net[e], 1, n)]
          /\ net' = [net EXCEPT ![e] = SubSeq(@, n + 1, Len(@))]
    /\ UNCHANGED <<open, reset, out, usrbuf, call>>

\* Where rio_readlineb stops in its buffer: at the newline, or with maxlen - 1
\* characters.
Stops(e) ==
    {n \in 1..Len(rio_buf[e]) :
        rio_buf[e][n].newline \/ Len(usrbuf[e]) + n = maxlen[e] - 1}

Take(e, n, result) ==
    /\ usrbuf' = [usrbuf EXCEPT ![e] = @ \o SubSeq(rio_buf[e], 1, n)]
    /\ rio_buf' = [rio_buf EXCEPT ![e] = SubSeq(@, n + 1, Len(@))]
    /\ call' = [call EXCEPT ![e] = result]
    /\ UNCHANGED <<open, reset, out, net>>

\* Mutant: rio_readlineb does not stop at the newline.
copy_all(e) ==
    /\ call[e] = "readlineb" /\ rio_buf[e] # <<>>
    /\ Take(e, Len(rio_buf[e]), IF Stops(e) = {} THEN "readlineb" ELSE "line")

\* The loop of rio_readlineb copies what the buffer has of the line.
copy(e) ==
    /\ call[e] = "readlineb" /\ rio_buf[e] # <<>>
    /\ IF Stops(e) = {}
       THEN Take(e, Len(rio_buf[e]), "readlineb")
       ELSE Take(e, CHOOSE n \in Stops(e) : \A m \in Stops(e) : n <= m, "line")

\* The end of the input: the characters that have come are returned as a line.
read_eof(e) ==
    /\ call[e] = "readlineb" /\ rio_buf[e] = <<>> /\ net[e] = <<>> /\ ~open[Peer(e)]
    /\ call' = [call EXCEPT ![e] = IF usrbuf[e] = <<>> THEN "end" ELSE "line"]
    /\ UNCHANGED <<open, reset, out, net, rio_buf, usrbuf>>

\* On a connection that was reset read fails, and what had come is discarded.
read_error(e) ==
    /\ call[e] = "readlineb" /\ rio_buf[e] = <<>> /\ reset[e]
    /\ net' = [net EXCEPT ![e] = <<>>]
    /\ call' = [call EXCEPT ![e] = "end"]
    /\ UNCHANGED <<open, reset, out, rio_buf, usrbuf>>

Reading(e) == rio_read(e) \/ copy(e) \/ read_eof(e) \/ read_error(e)
=============================================================================
