------------------------- MODULE ConversationProofs -------------------------
(***************************************************************************)
(* A connection of bytes is a connection of lines, for every number of     *)
(* requests, every length of lines that fits the server's rio_readlineb    *)
(* and every size of the buffers on the way: what is under way to an end   *)
(* is a sequence of complete lines but for the one that is being read and  *)
(* the one a dead process left unfinished.                                 *)
(***************************************************************************)
EXTENDS Conversation, SequenceTheorems, WellFoundedInduction, TLAPS

-----------------------------------------------------------------------------
(* The bytes on their way, and what the system calls leave behind.           *)

Ops == {"REQUEST", "BYE", "OK", "REFUSED"}

Byte == [line : Nat, pos : Nat, newline : BOOLEAN, op : Ops]

RioType ==
    /\ open \in [Ends -> BOOLEAN] /\ reset \in [Ends -> BOOLEAN]
    /\ out \in [Ends -> Seq(Byte)] /\ net \in [Ends -> Seq(Byte)]
    /\ rio_buf \in [Ends -> Seq(Byte)] /\ usrbuf \in [Ends -> Seq(Byte)]
    /\ call \in [Ends -> {"none", "writen", "readlineb", "line", "end"}]

\* What of the line it reads rio_readlineb has copied.
Copied(e) == IF call[e] \in {"readlineb", "line"} THEN usrbuf[e] ELSE <<>>

\* What has come to an end: Pipe(e) = Arrived(e) \o out[Peer(e)].
Arrived(e) == Copied(e) \o rio_buf[e] \o net[e]

\* What comes after the line being read: Pipe(e) = Copied(e) \o Rest(e).
Rest(e) == rio_buf[e] \o net[e] \o out[Peer(e)]

\* The bytes of s follow each other from the start of line n + 1; within a
\* line positions are counted, whatever the distance.
Flows(s, n) ==
    /\ s # <<>> => s[1].line = n + 1 /\ s[1].pos = 1
    /\ \A i \in 1..(Len(s) - 1) : Follows(s[i], s[i + 1])
    /\ \A i, j \in 1..Len(s) :
          i < j /\ (\A m \in i..(j - 1) : ~s[m].newline)
              => s[j].line = s[i].line /\ s[j].pos = s[i].pos + (j - i)

\* s ends with the end of line m; when it is empty line m has been dealt with.
EndsWith(s, n, m) ==
    IF s = <<>> THEN n = m ELSE s[Len(s)].newline /\ s[Len(s)].line = m

\* What the system calls leave behind.
SocketInv(e) ==
    /\ ~open[e] => /\ call[e] = "none" /\ net[e] = <<>>
                   /\ rio_buf[e] = <<>> /\ usrbuf[e] = <<>>
    /\ call[e] = "writen" <=> out[e] # <<>>
    /\ reset[e] => ~open[Peer(e)]
    /\ call[e] = "readlineb" => \A i \in 1..Len(usrbuf[e]) : ~usrbuf[e][i].newline
    /\ call[e] = "line" => /\ usrbuf[e] # <<>>
                           /\ \A i \in 1..(Len(usrbuf[e]) - 1) : ~usrbuf[e][i].newline

RioInv == RioType /\ \A e \in Ends : SocketInv(e)

-----------------------------------------------------------------------------
(* Sequences of bytes.                                                       *)

\* s \o t, to the provers an operator like any other.
Cat(s, t) == s \o t

\* Two sequences joined.
LEMMA Joined ==
  ASSUME NEW s \in Seq(Byte), NEW t \in Seq(Byte)
  PROVE  /\ Cat(s, t) \in Seq(Byte)
         /\ Len(s) \in Nat /\ Len(t) \in Nat /\ Len(Cat(s, t)) = Len(s) + Len(t)
         /\ \A i \in 1..Len(s) : (Cat(s, t))[i] = s[i]
         /\ \A i \in 1..Len(t) : (Cat(s, t))[Len(s) + i] = t[i]
         /\ \A i \in 1..Len(Cat(s, t)) : i > Len(s) => (Cat(s, t))[i] = t[i - Len(s)]
  BY ConcatProperties, LenProperties DEF Cat

\* Joining is associative, and joining nothing changes nothing.
LEMMA Joining ==
  ASSUME NEW s \in Seq(Byte), NEW t \in Seq(Byte), NEW u \in Seq(Byte)
  PROVE  /\ Cat(s, t) \in Seq(Byte) /\ Cat(Cat(s, t), u) = Cat(s, Cat(t, u))
         /\ Cat(s, <<>>) = s /\ Cat(<<>>, s) = s
<1>1. (s \o t) \o u = s \o (t \o u)
  BY ConcatAssociative
<1>2. Cat(s, t) \in Seq(Byte)
  BY Joined
<1>3. Cat(s, <<>>) = s /\ Cat(<<>>, s) = s
  BY ConcatEmptySeq DEF Cat
<1> QED
  BY <1>1, <1>2, <1>3, Zenon DEF Cat

\* A byte of a sequence, and its parts.
LEMMA ByteOf ==
  ASSUME NEW s \in Seq(Byte)
  PROVE  /\ Len(s) \in Nat /\ (s = <<>> <=> Len(s) = 0)
         /\ \A i \in 1..Len(s) : s[i] \in Byte /\ s[i].line \in Nat /\ s[i].pos \in Nat
                                  /\ s[i].newline \in BOOLEAN
<1>1. Len(s) \in Nat /\ (s = <<>> <=> Len(s) = 0)
  BY EmptySeq, LenProperties
<1>2. \A i \in 1..Len(s) : s[i] \in Byte
  BY ElementOfSeq
<1> QED
  BY <1>1, <1>2 DEF Byte

\* A sequence cut in two and joined again.
LEMMA Cut ==
  ASSUME NEW s \in Seq(Byte), NEW n \in 1..Len(s)
  PROVE  /\ SubSeq(s, 1, n) \in Seq(Byte) /\ SubSeq(s, n + 1, Len(s)) \in Seq(Byte)
         /\ Len(SubSeq(s, 1, n)) = n /\ Len(SubSeq(s, n + 1, Len(s))) = Len(s) - n
         /\ \A i \in 1..n : SubSeq(s, 1, n)[i] = s[i]
         /\ \A i \in 1..(Len(s) - n) : SubSeq(s, n + 1, Len(s))[i] = s[n + i]
         /\ Cat(SubSeq(s, 1, n), SubSeq(s, n + 1, Len(s))) = s
         /\ n = Len(s) <=> SubSeq(s, n + 1, Len(s)) = <<>>
<1>1. Len(s) \in Nat /\ \A i \in 1..Len(s) : s[i] \in Byte
  BY ElementOfSeq, LenProperties
<1>2. /\ SubSeq(s, 1, n) \in Seq(Byte) /\ Len(SubSeq(s, 1, n)) = n
      /\ \A i \in 1..n : SubSeq(s, 1, n)[i] = s[i]
  <2>1. 1 \in Int /\ n \in Int /\ 1 <= n /\ \A i \in 1..n : s[i] \in Byte
    BY <1>1
  <2>2. /\ SubSeq(s, 1, n) \in Seq(Byte)
        /\ Len(SubSeq(s, 1, n)) = IF 1 <= n THEN n - 1 + 1 ELSE 0
        /\ \A i \in 1..(n - 1 + 1) : SubSeq(s, 1, n)[i] = s[1 + i - 1]
    BY <2>1, SubSeqProperties
  <2> QED
    BY <2>1, <2>2
<1>3. /\ SubSeq(s, n + 1, Len(s)) \in Seq(Byte) /\ Len(SubSeq(s, n + 1, Len(s))) = Len(s) - n
      /\ \A i \in 1..(Len(s) - n) : SubSeq(s, n + 1, Len(s))[i] = s[n + i]
  <2>1. n + 1 \in Int /\ Len(s) \in Int /\ \A i \in (n + 1)..Len(s) : s[i] \in Byte
    BY <1>1
  <2>2. /\ SubSeq(s, n + 1, Len(s)) \in Seq(Byte)
        /\ Len(SubSeq(s, n + 1, Len(s))) = IF n + 1 <= Len(s) THEN Len(s) - (n + 1) + 1 ELSE 0
        /\ \A i \in 1..(Len(s) - (n + 1) + 1) : SubSeq(s, n + 1, Len(s))[i] = s[n + 1 + i - 1]
    BY <2>1, SubSeqProperties
  <2> QED
    BY <1>1, <2>2
<1>4. Cat(SubSeq(s, 1, n), SubSeq(s, n + 1, Len(s))) = s
  BY <1>1, ConcatAdjacentSubSeq, SubSeqFull DEF Cat
<1>5. n = Len(s) <=> SubSeq(s, n + 1, Len(s)) = <<>>
  <2> DEFINE r == SubSeq(s, n + 1, Len(s))
  <2>1. r \in Seq(Byte) /\ Len(r) = Len(s) - n
    BY <1>3
  <2> HIDE DEF r
  <2>2. Len(r) = 0 <=> r = <<>>
    BY <2>1, ByteOf
  <2>3. n = Len(s) <=> Len(r) = 0
    BY <1>1, <2>1
  <2> QED
    BY <2>2, <2>3 DEF r
<1> QED
  BY <1>2, <1>3, <1>4, <1>5

\* The text of a line.
LEMMA TextOf ==
  ASSUME NEW op \in Ops, NEW n \in Nat, NEW len \in Lengths
  PROVE  /\ Text(op, n, len) \in Seq(Byte) /\ len \in Nat \ {0}
         /\ Len(Text(op, n, len)) = len
         /\ \A i \in 1..len : /\ Text(op, n, len)[i].line = n /\ Text(op, n, len)[i].pos = i
                              /\ Text(op, n, len)[i].newline <=> i = len
                              /\ Text(op, n, len)[i].op = op
         /\ len < maxlen["server"]
<1>1. len \in Nat \ {0} /\ len < maxlen["server"]
  BY ConversationAssumption
<1>2. \A i \in 1..len : [line |-> n, pos |-> i, newline |-> i = len, op |-> op] \in Byte
  BY <1>1 DEF Byte
<1>3. Text(op, n, len) \in [1..len -> Byte]
  BY <1>2 DEF Text
<1>4. Text(op, n, len) \in Seq(Byte)
  BY <1>1, <1>3, SeqDef
<1>5. Len(Text(op, n, len)) = len
  BY <1>1, <1>3, <1>4, LenProperties
<1>6. ASSUME NEW i \in 1..len
      PROVE  /\ Text(op, n, len)[i].line = n /\ Text(op, n, len)[i].pos = i
             /\ Text(op, n, len)[i].newline <=> i = len
             /\ Text(op, n, len)[i].op = op
  BY DEF Text
<1> QED
  BY <1>1, <1>4, <1>5, <1>6

\* What is left when the writer dies still flows.
LEMMA FlowsPrefix ==
  ASSUME NEW s \in Seq(Byte), NEW t \in Seq(Byte), NEW n \in Nat, Flows(Cat(s, t), n)
  PROVE  Flows(s, n)
<1> DEFINE u == Cat(s, t)
<1>1. /\ Len(s) \in Nat /\ Len(t) \in Nat /\ Len(u) = Len(s) + Len(t)
      /\ \A i \in 1..Len(s) : u[i] = s[i]
  BY Joined
<1>2. (s = <<>> <=> Len(s) = 0) /\ (u = <<>> <=> Len(u) = 0)
  BY Joined, ByteOf
<1>3. Flows(u, n)
  OBVIOUS
<1> HIDE DEF u
<1>4. s # <<>> => s[1].line = n + 1 /\ s[1].pos = 1
  BY <1>1, <1>2, <1>3 DEF Flows
<1>5. ASSUME NEW i \in 1..(Len(s) - 1)
      PROVE  Follows(s[i], s[i + 1])
  <2>1. i \in 1..(Len(u) - 1) /\ u[i] = s[i] /\ u[i + 1] = s[i + 1]
    BY <1>1
  <2> QED
    BY <1>3, <2>1 DEF Flows
<1>6. ASSUME NEW i \in 1..Len(s), NEW j \in 1..Len(s), i < j, \A m \in i..(j - 1) : ~s[m].newline
      PROVE  s[j].line = s[i].line /\ s[j].pos = s[i].pos + (j - i)
  <2>1. i \in 1..Len(u) /\ j \in 1..Len(u) /\ u[i] = s[i] /\ u[j] = s[j]
    BY <1>1
  <2>2. ASSUME NEW m \in i..(j - 1) PROVE ~u[m].newline
    <3>1. m \in 1..Len(s)
      BY <1>1, <2>2
    <3> QED
      BY <1>1, <1>6, <2>2, <3>1
  <2> QED
    BY <1>3, <1>6, <2>1, <2>2 DEF Flows
<1> QED
  BY <1>4, <1>5, <1>6 DEF Flows

\* A line that has been read to its newline is the next one, and what comes
\* after it flows from its end.
LEMMA FlowsSuffix ==
  ASSUME NEW s \in Seq(Byte), NEW t \in Seq(Byte), NEW n \in Nat, Flows(Cat(s, t), n),
         s # <<>>, \A i \in 1..(Len(s) - 1) : ~s[i].newline
  PROVE  /\ s[Len(s)].line = n + 1 /\ s[Len(s)].pos = Len(s)
         /\ s[Len(s)].newline => Flows(t, n + 1)
<1> DEFINE u == Cat(s, t)
<1>1. /\ Len(s) \in Nat /\ Len(t) \in Nat /\ Len(u) = Len(s) + Len(t)
      /\ \A i \in 1..Len(s) : u[i] = s[i]
      /\ \A i \in 1..Len(t) : u[Len(s) + i] = t[i]
  BY Joined
<1>2. Len(s) # 0 /\ (t = <<>> <=> Len(t) = 0) /\ u # <<>>
  BY <1>1, Joined, ByteOf
<1>n. Len(s) \in Nat \ {0} /\ Len(u) \in Nat /\ Len(s) <= Len(u)
  BY <1>1, <1>2
<1>3. Flows(u, n)
  OBVIOUS
<1> HIDE DEF u
<1>4. u[1].line = n + 1 /\ u[1].pos = 1
  BY <1>2, <1>3 DEF Flows
<1>5. s[Len(s)].line = n + 1 /\ s[Len(s)].pos = Len(s)
  <2>1. CASE Len(s) = 1
    BY <1>1, <1>4, <2>1
  <2>2. CASE Len(s) # 1
    <3>1. 1 \in 1..Len(u) /\ Len(s) \in 1..Len(u) /\ 1 < Len(s)
      <4>1. \A a, b \in Nat : a # 0 /\ a # 1 /\ a <= b => 1 \in 1..b /\ a \in 1..b /\ 1 < a
        OBVIOUS
      <4> QED
        BY <1>n, <2>2, <4>1, Zenon
    <3>2. \A m \in 1..(Len(s) - 1) : ~u[m].newline
      BY <1>1
    <3>3. u[Len(s)].line = u[1].line /\ u[Len(s)].pos = u[1].pos + (Len(s) - 1)
      BY <1>3, <3>1, <3>2 DEF Flows
    <3> QED
      BY <1>1, <1>4, <3>1, <3>3
  <2> QED
    BY <2>1, <2>2
<1>6. ASSUME s[Len(s)].newline
      PROVE  Flows(t, n + 1)
  <2>1. t # <<>> => t[1].line = n + 1 + 1 /\ t[1].pos = 1
    <3>1. SUFFICES ASSUME t # <<>>
                   PROVE  t[1].line = n + 1 + 1 /\ t[1].pos = 1
      OBVIOUS
    <3>2. /\ Len(s) \in 1..(Len(u) - 1) /\ u[Len(s)] = s[Len(s)] /\ u[Len(s) + 1] = t[1]
      BY <1>1, <1>2, <3>1
    <3>3. Follows(s[Len(s)], t[1])
      BY <1>3, <3>2 DEF Flows
    <3> QED
      BY <1>5, <1>6, <3>3 DEF Follows
  <2>2. ASSUME NEW i \in 1..(Len(t) - 1)
        PROVE  Follows(t[i], t[i + 1])
    <3>1. Len(s) + i \in 1..(Len(u) - 1) /\ u[Len(s) + i] = t[i]
      BY <1>1
    <3>2. u[(Len(s) + i) + 1] = t[i + 1]
      <4>1. i + 1 \in 1..Len(t) /\ (Len(s) + i) + 1 = Len(s) + (i + 1)
        BY <1>1
      <4> QED
        BY <1>1, <4>1
    <3> QED
      BY <1>3, <3>1, <3>2 DEF Flows
  <2>3. ASSUME NEW i \in 1..Len(t), NEW j \in 1..Len(t), i < j, \A m \in i..(j - 1) : ~t[m].newline
        PROVE  t[j].line = t[i].line /\ t[j].pos = t[i].pos + (j - i)
    <3>1. /\ Len(s) + i \in 1..Len(u) /\ Len(s) + j \in 1..Len(u) /\ Len(s) + i < Len(s) + j
          /\ u[Len(s) + i] = t[i] /\ u[Len(s) + j] = t[j]
          /\ (Len(s) + j) - (Len(s) + i) = j - i
      BY <1>1, <2>3
    <3>2. \A m \in (Len(s) + i)..((Len(s) + j) - 1) : ~u[m].newline
      <4>1. SUFFICES ASSUME NEW m \in (Len(s) + i)..((Len(s) + j) - 1)
                     PROVE  ~u[m].newline
        OBVIOUS
      <4>2. m - Len(s) \in i..(j - 1) /\ m - Len(s) \in 1..Len(t) /\ Len(s) + (m - Len(s)) = m
        BY <1>1
      <4> QED
        BY <1>1, <2>3, <4>2
    <3> QED
      BY <1>3, <3>1, <3>2 DEF Flows
  <2> QED
    BY <2>1, <2>2, <2>3 DEF Flows
<1> QED
  BY <1>5, <1>6

\* The text of the next line goes on where the last one ended.
LEMMA FlowsAppend ==
  ASSUME NEW s \in Seq(Byte), NEW n \in Nat, NEW m \in Nat, Flows(s, n), EndsWith(s, n, m),
         NEW op \in Ops, NEW len \in Lengths, NEW q \in Nat, q = m + 1
  PROVE  /\ Flows(Cat(s, Text(op, q, len)), n)
         /\ EndsWith(Cat(s, Text(op, q, len)), n, q)
         /\ Cat(s, Text(op, q, len)) # <<>>
<1> DEFINE t == Text(op, q, len)
           u == Cat(s, t)
<1>1. /\ t \in Seq(Byte) /\ Len(t) = len /\ len \in Nat \ {0}
      /\ \A i \in 1..len : t[i].line = q /\ t[i].pos = i /\ (t[i].newline <=> i = len)
  BY TextOf
<1> HIDE DEF t
<1>2. /\ Len(s) \in Nat /\ Len(u) = Len(s) + len
      /\ \A i \in 1..Len(s) : u[i] = s[i]
      /\ \A i \in 1..len : u[Len(s) + i] = t[i]
      /\ \A i \in 1..Len(u) : i > Len(s) => u[i] = t[i - Len(s)]
  <2>1. /\ Len(s) \in Nat /\ Len(u) = Len(s) + Len(t)
        /\ \A i \in 1..Len(s) : u[i] = s[i]
        /\ \A i \in 1..Len(t) : u[Len(s) + i] = t[i]
        /\ \A i \in 1..Len(u) : i > Len(s) => u[i] = t[i - Len(s)]
    <3>1. t \in Seq(Byte)
      BY <1>1
    <3> QED
      BY ONLY <3>1, s \in Seq(Byte), Joined
  <2> QED
    BY <1>1, <2>1
<1>3. (s = <<>> <=> Len(s) = 0) /\ u # <<>>
  BY <1>1, <1>2, Joined, ByteOf
<1> HIDE DEF u
<1>4. u[1].line = n + 1 /\ u[1].pos = 1
  <2>1. CASE s = <<>>
    <3>1. u[1] = t[1] /\ n = m
      BY <1>1, <1>2, <1>3, <2>1 DEF EndsWith
    <3> QED
      BY <1>1, <3>1
  <2>2. CASE s # <<>>
    <3>1. u[1] = s[1]
      BY <1>2, <1>3, <2>2
    <3> QED
      BY <2>2, <3>1 DEF Flows
  <2> QED
    BY <2>1, <2>2
<1>5. ASSUME NEW i \in 1..(Len(u) - 1)
      PROVE  Follows(u[i], u[i + 1])
  <2>1. CASE i < Len(s)
    BY <1>2, <2>1 DEF Flows
  <2>2. CASE i = Len(s)
    <3>1. u[i] = s[Len(s)] /\ u[i + 1] = t[1] /\ s # <<>>
      BY <1>1, <1>2, <1>3, <2>2
    <3> QED
      BY <1>1, <3>1 DEF EndsWith, Follows
  <2>3. CASE i > Len(s)
    <3>0. PICK k, l \in Nat : k = Len(s) /\ l = Len(u) /\ l = k + len
      BY <1>1, <1>2
    <3>1. /\ i - Len(s) \in 1..(len - 1) /\ u[i] = t[i - Len(s)]
          /\ u[i + 1] = t[(i - Len(s)) + 1]
      <4>1. /\ i - k \in 1..(len - 1) /\ (i + 1) - k = (i - k) + 1
            /\ i \in 1..l /\ i + 1 \in 1..l /\ i > k /\ i + 1 > k
        BY <1>1, <2>3, <3>0
      <4> QED
        BY <1>2, <3>0, <4>1
    <3> QED
      BY <1>1, <3>1 DEF Follows
  <2> QED
    BY <1>2, <2>1, <2>2, <2>3
<1>6. ASSUME NEW i \in 1..Len(u), NEW j \in 1..Len(u), i < j, \A k \in i..(j - 1) : ~u[k].newline
      PROVE  u[j].line = u[i].line /\ u[j].pos = u[i].pos + (j - i)
  <2>1. CASE j <= Len(s)
    <3>1. \A k \in i..(j - 1) : ~s[k].newline
      BY <1>2, <1>6, <2>1
    <3>2. i \in 1..Len(s) /\ j \in 1..Len(s) /\ u[i] = s[i] /\ u[j] = s[j]
      BY <1>2, <1>6, <2>1
    <3> QED
      BY <1>6, <3>1, <3>2 DEF Flows
  <2>2. CASE j > Len(s) /\ i <= Len(s)
    <3>1. Len(s) \in i..(j - 1) /\ Len(s) \in 1..Len(s) /\ s # <<>>
      BY <1>2, <1>3, <1>6, <2>2
    <3> QED
      BY <1>2, <1>6, <3>1 DEF EndsWith
  <2>3. CASE i > Len(s)
    <3>1. /\ i - Len(s) \in 1..len /\ j - Len(s) \in 1..len
          /\ u[i] = t[i - Len(s)] /\ u[j] = t[j - Len(s)]
      BY <1>1, <1>2, <1>6, <2>3
    <3>2. /\ u[i].line = q /\ u[i].pos = i - Len(s)
          /\ u[j].line = q /\ u[j].pos = j - Len(s)
      BY <1>1, <3>1
    <3> QED
      BY <1>2, <3>2
  <2> QED
    BY <1>2, <2>1, <2>2, <2>3
<1>7. EndsWith(u, n, q)
  <2>1. u[Len(u)] = t[len]
    BY <1>1, <1>2
  <2> QED
    BY <1>1, <1>3, <2>1 DEF EndsWith
<1>8. Flows(u, n)
  BY <1>4, <1>5, <1>6 DEF Flows
<1> QED
  BY <1>3, <1>7, <1>8 DEF u, t

\* Every byte of s is one of u; every byte of u is one of s or of t.
Within(s, u) == \A i \in 1..Len(s) : \E j \in 1..Len(u) : s[i] = u[j]
Mixed(u, s, t) ==
    \A j \in 1..Len(u) : (\E i \in 1..Len(s) : u[j] = s[i]) \/ (\E i \in 1..Len(t) : u[j] = t[i])

\* The bytes of two sequences joined are the bytes of the one and the other.
LEMMA Elements ==
  ASSUME NEW s \in Seq(Byte), NEW t \in Seq(Byte), NEW u \in Seq(Byte), u = Cat(s, t)
  PROVE  Within(s, u) /\ Within(t, u) /\ Mixed(u, s, t)
<1>1. /\ Len(s) \in Nat /\ Len(t) \in Nat /\ Len(u) = Len(s) + Len(t)
      /\ \A i \in 1..Len(s) : u[i] = s[i]
      /\ \A i \in 1..Len(t) : u[Len(s) + i] = t[i]
      /\ \A i \in 1..Len(u) : i > Len(s) => u[i] = t[i - Len(s)]
  <2>1. /\ Len(s) \in Nat /\ Len(t) \in Nat /\ Len(Cat(s, t)) = Len(s) + Len(t)
        /\ \A i \in 1..Len(s) : (Cat(s, t))[i] = s[i]
        /\ \A i \in 1..Len(t) : (Cat(s, t))[Len(s) + i] = t[i]
        /\ \A i \in 1..Len(Cat(s, t)) : i > Len(s) => (Cat(s, t))[i] = t[i - Len(s)]
    BY ONLY s \in Seq(Byte), t \in Seq(Byte), Joined
  <2> QED
    BY <2>1, Zenon
<1>2. ASSUME NEW i \in 1..Len(s) PROVE \E j \in 1..Len(u) : s[i] = u[j]
  BY <1>1
<1>3. ASSUME NEW i \in 1..Len(t) PROVE \E j \in 1..Len(u) : t[i] = u[j]
  <2>1. Len(s) + i \in 1..Len(u)
    BY <1>1
  <2> QED
    BY <1>1, <2>1
<1>4. ASSUME NEW j \in 1..Len(u)
      PROVE  (\E i \in 1..Len(s) : u[j] = s[i]) \/ (\E i \in 1..Len(t) : u[j] = t[i])
  <2>1. CASE j <= Len(s)
    BY <1>1, <2>1
  <2>2. CASE j > Len(s)
    <3>1. j - Len(s) \in 1..Len(t) /\ u[j] = t[j - Len(s)]
      BY <1>1, <2>2
    <3> QED
      BY <3>1
  <2> QED
    BY <1>1, <2>1, <2>2
<1> QED
  BY <1>2, <1>3, <1>4 DEF Within, Mixed

\* s is the end of line m; the lines completed in s have numbers up to m.
LineEnd(s, m) == \A i \in 1..Len(s) : s[i].line = m /\ (s[i].newline <=> i = Len(s))
Completed(s, m) == \A i \in 1..Len(s) : s[i].newline => s[i].line <= m

\* Of a line whose first part has been written: the rest still ends with the
\* newline, which is written last.
LEMMA WrittenPart ==
  ASSUME NEW x \in Seq(Byte), NEW y \in Seq(Byte), NEW o \in Seq(Byte), o = Cat(x, y),
         NEW m \in Nat, LineEnd(o, m), NEW c \in Nat, y = <<>> => m <= c
  PROVE  LineEnd(y, m) /\ Completed(x, c)
<1>1. /\ Len(x) \in Nat /\ Len(y) \in Nat /\ Len(Cat(x, y)) = Len(x) + Len(y)
      /\ \A i \in 1..Len(x) : (Cat(x, y))[i] = x[i]
      /\ \A i \in 1..Len(y) : (Cat(x, y))[Len(x) + i] = y[i]
  BY ONLY x \in Seq(Byte), y \in Seq(Byte), Joined
<1>2. y = <<>> <=> Len(y) = 0
  BY ByteOf
<1>3. PICK k, l \in Nat : k = Len(x) /\ l = Len(y)
  BY <1>1
<1>4. /\ Len(o) = k + l
      /\ \A i \in 1..k : o[i] = x[i]
      /\ \A i \in 1..l : o[k + i] = y[i]
      /\ \A i \in 1..(k + l) : o[i].line = m /\ (o[i].newline <=> i = k + l)
  BY <1>1, <1>3, Zenon DEF LineEnd
<1>5. ASSUME NEW i \in 1..l PROVE y[i].line = m /\ (y[i].newline <=> i = l)
  <2>1. k + i \in 1..(k + l) /\ (k + i = k + l <=> i = l)
    OBVIOUS
  <2> QED
    BY <1>4, <2>1
<1>6. ASSUME NEW i \in 1..k, x[i].newline PROVE x[i].line = m /\ l = 0
  <2>1. i \in 1..(k + l) /\ (i = k + l => l = 0)
    OBVIOUS
  <2> QED
    BY <1>4, <1>6, <2>1
<1>7. LineEnd(y, m)
  BY <1>3, <1>5 DEF LineEnd
<1>8. Completed(x, c)
  BY <1>2, <1>3, <1>6 DEF Completed
<1> QED
  BY <1>7, <1>8

\* A bound on the lines completed in two sequences bounds those of both.
LEMMA CompletedLines ==
  ASSUME NEW s \in Seq(Byte), NEW t \in Seq(Byte), NEW u \in Seq(Byte), u = Cat(s, t), NEW m
  PROVE  /\ Completed(u, m) => Completed(t, m)
         /\ Completed(s, m) /\ Completed(t, m) => Completed(u, m)
<1>1. Within(t, u) /\ Mixed(u, s, t)
  BY Elements
<1> QED
  BY <1>1, Zenon DEF Within, Mixed, Completed

\* When the next line has been read to its newline, the rest ends where the
\* whole did.
LEMMA EndsSuffix ==
  ASSUME NEW s \in Seq(Byte), NEW t \in Seq(Byte), NEW n \in Nat, NEW m \in Nat,
         EndsWith(Cat(s, t), n, m), s # <<>>, s[Len(s)].line = n + 1
  PROVE  EndsWith(t, n + 1, m)
<1> DEFINE u == Cat(s, t)
<1>1. /\ u \in Seq(Byte) /\ Len(s) \in Nat /\ Len(t) \in Nat /\ Len(u) = Len(s) + Len(t)
      /\ \A i \in 1..Len(s) : u[i] = s[i]
      /\ \A i \in 1..Len(t) : u[Len(s) + i] = t[i]
  BY Joined
<1>2. EndsWith(u, n, m)
  OBVIOUS
<1> HIDE DEF u
<1>3. Len(s) # 0 /\ (t = <<>> <=> Len(t) = 0) /\ u # <<>>
  <2>1. (s = <<>> <=> Len(s) = 0) /\ (t = <<>> <=> Len(t) = 0) /\ (u = <<>> <=> Len(u) = 0)
    BY <1>1, ByteOf
  <2> QED
    BY <1>1, <2>1
<1>4. CASE t = <<>>
  <2>1. Len(u) = Len(s) /\ Len(s) \in 1..Len(s)
    BY <1>1, <1>3, <1>4
  <2>2. u[Len(u)] = s[Len(s)]
    BY <1>1, <2>1
  <2> QED
    BY <1>2, <1>3, <1>4, <2>2 DEF EndsWith
<1>5. CASE t # <<>>
  <2>1. Len(t) \in 1..Len(t)
    BY <1>1, <1>3, <1>5
  <2>2. u[Len(u)] = t[Len(t)]
    BY <1>1, <2>1
  <2> QED
    BY <1>2, <1>3, <1>5, <2>2 DEF EndsWith
<1> QED
  BY <1>4, <1>5

\* When no line after line n has been begun, nothing is under way.
LEMMA NothingLeft ==
  ASSUME NEW s \in Seq(Byte), NEW n \in Nat, Flows(s, n), \A i \in 1..Len(s) : s[i].line <= n
  PROVE  s = <<>>
<1>1. SUFFICES ASSUME s # <<>> PROVE FALSE
  OBVIOUS
<1>2. 1 \in 1..Len(s)
  BY <1>1, ByteOf
<1>3. s[1].line = n + 1 /\ s[1].line <= n
  BY <1>1, <1>2 DEF Flows
<1> QED
  BY <1>3

\* Nothing flows from any line.
LEMMA NothingFlows == ASSUME NEW n PROVE Flows(<<>>, n)
  BY DEF Flows

-----------------------------------------------------------------------------
(* The two ends and what the system calls do to them.                        *)

\* There are two ends.
LEMMA PeerOf ==
  ASSUME NEW e \in Ends
  PROVE  Peer(e) \in Ends /\ Peer(e) # e /\ Peer(Peer(e)) = e /\ \A d \in Ends : d = e \/ d = Peer(e)
  BY DEF Ends, Peer

\* Four pieces joined in any order of joining.
LEMMA JoinFour ==
  ASSUME NEW a \in Seq(Byte), NEW b \in Seq(Byte), NEW c \in Seq(Byte), NEW d \in Seq(Byte)
  PROVE  /\ Cat(Cat(a, b), c) \in Seq(Byte) /\ Cat(Cat(b, c), d) \in Seq(Byte)
         /\ Cat(Cat(Cat(a, b), c), d) \in Seq(Byte)
         /\ Cat(Cat(a, b), c) = Cat(a, Cat(b, c))
         /\ Cat(Cat(Cat(a, b), c), d) = Cat(a, Cat(Cat(b, c), d))
<1>1. Cat(b, c) \in Seq(Byte) /\ Cat(a, b) \in Seq(Byte)
  BY Joined
<1>2. Cat(Cat(a, b), c) \in Seq(Byte) /\ Cat(Cat(b, c), d) \in Seq(Byte)
  BY <1>1, Joined
<1>3. Cat(Cat(Cat(a, b), c), d) \in Seq(Byte)
  BY <1>2, Joined
<1>4. Cat(Cat(a, b), c) = Cat(a, Cat(b, c))
  BY Joining
<1>5. Cat(Cat(a, Cat(b, c)), d) = Cat(a, Cat(Cat(b, c), d))
  BY <1>1, Joining
<1> QED
  BY <1>2, <1>3, <1>4, <1>5

\* The pieces of a pipe.
LEMMA Pieces ==
  ASSUME RioType, NEW e \in Ends
  PROVE  /\ Copied(e) \in Seq(Byte) /\ Arrived(e) \in Seq(Byte)
         /\ Rest(e) \in Seq(Byte) /\ Pipe(e) \in Seq(Byte)
         /\ rio_buf[e] \in Seq(Byte) /\ net[e] \in Seq(Byte) /\ out[Peer(e)] \in Seq(Byte)
         /\ Arrived(e) = Cat(Copied(e), Cat(rio_buf[e], net[e]))
         /\ Rest(e) = Cat(Cat(rio_buf[e], net[e]), out[Peer(e)])
         /\ Pipe(e) = Cat(Arrived(e), out[Peer(e)])
         /\ Pipe(e) = Cat(Copied(e), Rest(e))
<1>1. /\ Copied(e) \in Seq(Byte) /\ rio_buf[e] \in Seq(Byte) /\ net[e] \in Seq(Byte)
      /\ out[Peer(e)] \in Seq(Byte)
  BY PeerOf, EmptySeq DEF RioType, Copied
<1>2. PICK a, b, c, d \in Seq(Byte) : a = Copied(e) /\ b = rio_buf[e] /\ c = net[e] /\ d = out[Peer(e)]
  BY <1>1
<1>3. /\ Arrived(e) = Cat(Cat(a, b), c) /\ Rest(e) = Cat(Cat(b, c), d)
      /\ Pipe(e) = Cat(Cat(Cat(a, b), c), d)
  BY <1>2, Zenon DEF Arrived, Rest, Pipe, Copied, Cat
<1>4. /\ Cat(Cat(a, b), c) \in Seq(Byte) /\ Cat(Cat(b, c), d) \in Seq(Byte)
      /\ Cat(Cat(Cat(a, b), c), d) \in Seq(Byte)
      /\ Cat(Cat(a, b), c) = Cat(a, Cat(b, c))
      /\ Cat(Cat(Cat(a, b), c), d) = Cat(a, Cat(Cat(b, c), d))
  BY JoinFour
<1> QED
  BY <1>2, <1>3, <1>4

\* The same of the next state.
LEMMA PiecesNext ==
  ASSUME RioType', NEW e \in Ends
  PROVE  /\ Copied(e)' \in Seq(Byte) /\ Arrived(e)' \in Seq(Byte)
         /\ Rest(e)' \in Seq(Byte) /\ Pipe(e)' \in Seq(Byte)
         /\ rio_buf'[e] \in Seq(Byte) /\ net'[e] \in Seq(Byte) /\ out'[Peer(e)] \in Seq(Byte)
         /\ Arrived(e)' = Cat(Copied(e)', Cat(rio_buf'[e], net'[e]))
         /\ Rest(e)' = Cat(Cat(rio_buf'[e], net'[e]), out'[Peer(e)])
         /\ Pipe(e)' = Cat(Arrived(e)', out'[Peer(e)])
         /\ Pipe(e)' = Cat(Copied(e)', Rest(e)')
<1>1. /\ Copied(e)' \in Seq(Byte) /\ rio_buf'[e] \in Seq(Byte) /\ net'[e] \in Seq(Byte)
      /\ out'[Peer(e)] \in Seq(Byte)
  BY PeerOf, EmptySeq DEF RioType, Copied
<1>2. PICK a, b, c, d \in Seq(Byte) : a = Copied(e)' /\ b = rio_buf'[e] /\ c = net'[e] /\ d = out'[Peer(e)]
  BY <1>1
<1>3. /\ Arrived(e)' = Cat(Cat(a, b), c) /\ Rest(e)' = Cat(Cat(b, c), d)
      /\ Pipe(e)' = Cat(Cat(Cat(a, b), c), d)
  BY <1>2, Zenon DEF Arrived, Rest, Pipe, Copied, Cat
<1>4. /\ Cat(Cat(a, b), c) \in Seq(Byte) /\ Cat(Cat(b, c), d) \in Seq(Byte)
      /\ Cat(Cat(Cat(a, b), c), d) \in Seq(Byte)
      /\ Cat(Cat(a, b), c) = Cat(a, Cat(b, c))
      /\ Cat(Cat(Cat(a, b), c), d) = Cat(a, Cat(Cat(b, c), d))
  BY JoinFour
<1> QED
  BY <1>2, <1>3, <1>4

\* Nothing changes in what is under way to an end whose buffers, call and
\* peer's output stay as they are.
LEMMA UntouchedEnd ==
  ASSUME NEW d \in Ends, Copied(d)' = Copied(d), rio_buf'[d] = rio_buf[d], net'[d] = net[d]
  PROVE  /\ Arrived(d)' = Arrived(d)
         /\ out'[Peer(d)] = out[Peer(d)] => Pipe(d)' = Pipe(d)
  BY Zenon DEF Copied, Arrived, Pipe

\* A short or complete write moves bytes and loses none.
LEMMA WriteEffect ==
  ASSUME RioInv, NEW e \in Ends, write(e)
  PROVE  /\ RioInv' /\ UNCHANGED <<open, reset, rio_buf, usrbuf>>
         /\ open[e] /\ open[Peer(e)] /\ call[e] = "writen"
         /\ call'[e] = IF out'[e] = <<>> THEN "none" ELSE "writen"
         /\ call'[Peer(e)] = call[Peer(e)] /\ out'[Peer(e)] = out[Peer(e)]
         /\ Pipe(e)' = Pipe(e) /\ Pipe(Peer(e))' = Pipe(Peer(e)) /\ Arrived(e)' = Arrived(e)
         /\ \E x \in Seq(Byte) : /\ out[e] = Cat(x, out'[e])
                                 /\ Arrived(Peer(e))' = Cat(Arrived(Peer(e)), x)
<1>0. PICK p \in Ends : p = Peer(e) /\ p # e /\ Peer(p) = e /\ \A d \in Ends : d = e \/ d = p
  BY PeerOf
<1>t. RioType /\ SocketInv(e) /\ SocketInv(p)
  BY DEF RioInv
<1>1. PICK n \in 1..Len(out[e]) :
          /\ net' = [net EXCEPT ![p] = net[p] \o SubSeq(out[e], 1, n)]
          /\ out' = [out EXCEPT ![e] = SubSeq(out[e], n + 1, Len(out[e]))]
          /\ call' = [call EXCEPT ![e] = IF n = Len(out[e]) THEN "none" ELSE call[e]]
  BY <1>0 DEF write
<1>o. PICK o \in Seq(Byte) : o = out[e]
  BY <1>t DEF RioType
<1>c. /\ SubSeq(o, 1, n) \in Seq(Byte) /\ SubSeq(o, n + 1, Len(o)) \in Seq(Byte)
      /\ Cat(SubSeq(o, 1, n), SubSeq(o, n + 1, Len(o))) = o
      /\ n = Len(o) <=> SubSeq(o, n + 1, Len(o)) = <<>>
  <2>1. n \in 1..Len(o)
    BY <1>o
  <2> QED
    BY ONLY <2>1, o \in Seq(Byte), Cut
<1>x. PICK x \in Seq(Byte) : x = SubSeq(o, 1, n)
  BY <1>c
<1>y. PICK y \in Seq(Byte) : y = SubSeq(o, n + 1, Len(o))
  BY <1>c
<1>2. /\ x = SubSeq(out[e], 1, n) /\ y = SubSeq(out[e], n + 1, Len(out[e])) /\ o = out[e]
      /\ Cat(x, y) = o /\ (n = Len(out[e]) <=> y = <<>>)
  BY <1>c, <1>o, <1>x, <1>y, Zenon
<1>3. /\ net'[p] = Cat(net[p], x) /\ net'[e] = net[e] /\ out'[e] = y /\ out'[p] = out[p]
      /\ call'[p] = call[p] /\ call'[e] = IF y = <<>> THEN "none" ELSE "writen"
      /\ call[e] = "writen" /\ open[e] /\ open[p] /\ UNCHANGED <<open, reset, rio_buf, usrbuf>>
  <2>1. net'[p] = Cat(net[p], x) /\ net'[e] = net[e]
    BY <1>0, <1>1, <1>2, <1>t DEF RioType, Cat
  <2>2. out'[e] = y /\ out'[p] = out[p]
    BY <1>0, <1>1, <1>2, <1>t DEF RioType
  <2>3. call'[p] = call[p] /\ call'[e] = IF y = <<>> THEN "none" ELSE "writen"
    BY <1>0, <1>1, <1>2, <1>t DEF RioType, write
  <2> QED
    BY <1>0, <2>1, <2>2, <2>3 DEF write
<1>4. RioType'
  <2>1. net[p] \in Seq(Byte) /\ Cat(net[p], x) \in Seq(Byte)
    BY <1>t, Joined DEF RioType
  <2>2. net' \in [Ends -> Seq(Byte)]
    BY <1>1, <1>2, <1>t, <2>1 DEF RioType, Cat
  <2>3. out' \in [Ends -> Seq(Byte)]
    BY <1>1, <1>2, <1>t DEF RioType
  <2> QED
    BY <1>1, <1>3, <1>t, <2>2, <2>3 DEF RioType
<1>5. SocketInv(e)' /\ SocketInv(p)'
  BY <1>0, <1>3, <1>t DEF SocketInv
<1>6. Arrived(e)' = Arrived(e) /\ Pipe(e)' = Pipe(e)
  <2>1. Copied(e)' = Copied(e)
    BY <1>3 DEF Copied
  <2> QED
    BY <1>0, <1>3, <2>1, UntouchedEnd
<1>7. PICK a, b, c \in Seq(Byte) : a = Copied(p) /\ b = rio_buf[p] /\ c = net[p]
  BY <1>t, Pieces
<1>8. Arrived(p)' = Cat(Arrived(p), x)
  <2>1. Copied(p)' = a
    BY <1>3, <1>7 DEF Copied
  <2>2. Arrived(p)' = Cat(a, Cat(b, Cat(c, x))) /\ Arrived(p) = Cat(a, Cat(b, c))
    BY <1>3, <1>4, <1>7, <1>t, <2>1, Pieces, PiecesNext
  <2>3. Cat(b, c) \in Seq(Byte) /\ Cat(b, Cat(c, x)) = Cat(Cat(b, c), x)
    BY Joining
  <2>4. Cat(a, Cat(Cat(b, c), x)) = Cat(Cat(a, Cat(b, c)), x)
    BY <2>3, Joining
  <2> QED
    BY <2>2, <2>3, <2>4
<1>9. Pipe(p)' = Pipe(p)
  <2>1. PICK f \in Seq(Byte) : f = Arrived(p)
    BY <1>t, Pieces
  <2>2. Pipe(p) = Cat(f, o)
    <3>1. Pipe(p) = Cat(Arrived(p), out[Peer(p)])
      BY <1>t, Pieces
    <3> QED
      BY <1>0, <1>2, <2>1, <3>1, Zenon
  <2>4. Pipe(p)' = Cat(Cat(f, x), y)
    <3>1. Pipe(p)' = Cat(Arrived(p)', out'[Peer(p)])
      BY <1>4, PiecesNext
    <3> QED
      BY <1>0, <1>3, <1>8, <2>1, <3>1, Zenon
  <2>3. Cat(Cat(f, x), y) = Cat(f, Cat(x, y))
    BY Joining
  <2> QED
    BY <1>2, <2>2, <2>3, <2>4, Zenon
<1>10. RioInv'
  BY <1>0, <1>4, <1>5 DEF RioInv
<1> QED
  BY <1>0, <1>1, <1>2, <1>3, <1>6, <1>8, <1>9, <1>10

\* A write to a closed peer: what was to be written is gone.
LEMMA LostEffect ==
  ASSUME RioInv, NEW e \in Ends, write_lost(e)
  PROVE  /\ RioInv' /\ UNCHANGED <<open, net, rio_buf, usrbuf>>
         /\ open[e] /\ ~open[Peer(e)] /\ call[e] = "writen" /\ call'[e] = "none"
         /\ call'[Peer(e)] = call[Peer(e)] /\ reset'[Peer(e)] = reset[Peer(e)]
         /\ out'[e] = <<>> /\ out'[Peer(e)] = out[Peer(e)]
         /\ Pipe(e)' = Pipe(e) /\ Arrived(e)' = Arrived(e)
         /\ Arrived(Peer(e))' = Arrived(Peer(e))
<1>0. PICK p \in Ends : p = Peer(e) /\ p # e /\ Peer(p) = e /\ \A d \in Ends : d = e \/ d = p
  BY PeerOf
<1>t. RioType /\ SocketInv(e) /\ SocketInv(p)
  BY DEF RioInv
<1>1. /\ call[e] = "writen" /\ open[e] /\ ~open[p] /\ UNCHANGED <<open, net, rio_buf, usrbuf>>
      /\ out'[e] = <<>> /\ out'[p] = out[p] /\ call'[e] = "none" /\ call'[p] = call[p]
      /\ reset'[e] = TRUE /\ reset'[p] = reset[p]
  BY <1>0, <1>t DEF write_lost, RioType
<1>2. RioType'
  BY <1>0, <1>1, <1>t, EmptySeq DEF write_lost, RioType
<1>3. SocketInv(e)' /\ SocketInv(p)'
  BY <1>0, <1>1, <1>t DEF SocketInv
<1>4. Copied(e)' = Copied(e) /\ Copied(p)' = Copied(p)
  BY <1>1 DEF Copied
<1> QED
  BY <1>0, <1>1, <1>2, <1>3, <1>4, UntouchedEnd DEF RioInv

\* When an end turns from the line it has read to what comes after it, that
\* line is gone from the front.
LEMMA TurnFrom ==
  ASSUME RioType, RioType', NEW e \in Ends, call'[e] \notin {"readlineb", "line"},
         rio_buf'[e] = rio_buf[e], net'[e] = net[e], out'[Peer(e)] = out[Peer(e)]
  PROVE  /\ Pipe(e)' = Rest(e)
         /\ Pipe(e) = Cat(Copied(e), Pipe(e)') /\ Arrived(e) = Cat(Copied(e), Arrived(e)')
<1>1. Copied(e)' = <<>>
  BY DEF Copied
<1>2. PICK f \in Seq(Byte) : f = Cat(rio_buf[e], net[e])
  BY Pieces, Joined
<1>3. PICK g \in Seq(Byte) : g = Rest(e)
  BY Pieces
<1>4. Arrived(e) = Cat(Copied(e), f) /\ Pipe(e) = Cat(Copied(e), g)
  BY <1>2, <1>3, Pieces
<1>5. Rest(e)' = Rest(e)
  BY Zenon DEF Rest
<1>6. Arrived(e)' = Cat(<<>>, f) /\ Pipe(e)' = Cat(<<>>, g)
  BY <1>1, <1>2, <1>3, <1>5, PiecesNext
<1>7. Cat(<<>>, f) = f /\ Cat(<<>>, g) = g
  BY Joining
<1> QED
  BY <1>3, <1>4, <1>6, <1>7

\* rio_writen begins to write a text.
LEMMA SayEffect ==
  ASSUME RioInv, NEW e \in Ends, NEW text \in Seq(Byte), text # <<>>, rio_writen(e, text)
  PROVE  /\ RioInv' /\ UNCHANGED <<open, reset, net, rio_buf, usrbuf>>
         /\ open[e] /\ call'[e] = "writen" /\ call'[Peer(e)] = call[Peer(e)]
         /\ out'[e] = text /\ out'[Peer(e)] = out[Peer(e)]
         /\ Pipe(Peer(e))' = Cat(Pipe(Peer(e)), text) /\ Arrived(Peer(e))' = Arrived(Peer(e))
         /\ Pipe(e)' = Rest(e)
         /\ Pipe(e) = Cat(Copied(e), Pipe(e)') /\ Arrived(e) = Cat(Copied(e), Arrived(e)')
<1>0. PICK p \in Ends : p = Peer(e) /\ p # e /\ Peer(p) = e /\ \A d \in Ends : d = e \/ d = p
  BY PeerOf
<1>t. RioType /\ SocketInv(e) /\ SocketInv(p)
  BY DEF RioInv
<1>1. /\ call[e] \notin {"writen", "readlineb"} /\ open[e]
      /\ UNCHANGED <<open, reset, net, rio_buf, usrbuf>>
      /\ out'[e] = text /\ out'[p] = out[p] /\ call'[e] = "writen" /\ call'[p] = call[p]
  BY <1>0, <1>t DEF rio_writen, RioType, InCall
<1>2. RioType'
  BY <1>0, <1>1, <1>t DEF rio_writen, RioType
<1>3. SocketInv(e)' /\ SocketInv(p)' /\ out[e] = <<>>
  BY <1>0, <1>1, <1>t DEF SocketInv
<1>4. Copied(p)' = Copied(p)
  BY <1>1 DEF Copied
<1>5. Arrived(p)' = Arrived(p)
  BY <1>1, <1>4, UntouchedEnd
<1>6. Pipe(p)' = Cat(Pipe(p), text)
  <2>1. PICK f \in Seq(Byte) : f = Arrived(p)
    BY <1>t, Pieces
  <2>2. Pipe(p) = Cat(f, <<>>)
    <3>1. Pipe(p) = Cat(Arrived(p), out[Peer(p)])
      BY <1>t, Pieces
    <3> QED
      BY <1>0, <1>3, <2>1, <3>1, Zenon
  <2>3. Pipe(p)' = Cat(f, text)
    <3>1. Pipe(p)' = Cat(Arrived(p)', out'[Peer(p)])
      BY <1>2, PiecesNext
    <3> QED
      BY <1>0, <1>1, <1>5, <2>1, <3>1, Zenon
  <2>4. Cat(f, <<>>) = f
    BY Joining
  <2> QED
    BY <2>2, <2>3, <2>4, Zenon
<1>7. /\ Pipe(e)' = Rest(e)
      /\ Pipe(e) = Cat(Copied(e), Pipe(e)') /\ Arrived(e) = Cat(Copied(e), Arrived(e)')
  BY <1>0, <1>1, <1>2, <1>t, TurnFrom
<1>8. RioInv'
  BY <1>0, <1>2, <1>3 DEF RioInv
<1> QED
  BY <1>0, <1>1, <1>5, <1>6, <1>7, <1>8

\* close: what has come stays with the peer, what was to be written is gone.
LEMMA CloseEffect ==
  ASSUME RioInv, NEW e \in Ends, close(e)
  PROVE  /\ RioInv' /\ open[e] /\ open' = [open EXCEPT ![e] = FALSE]
         /\ call'[e] = "none" /\ call'[Peer(e)] = call[Peer(e)]
         /\ out'[e] = <<>> /\ out'[Peer(e)] = out[Peer(e)] /\ net'[Peer(e)] = net[Peer(e)]
         /\ rio_buf'[e] = <<>> /\ rio_buf'[Peer(e)] = rio_buf[Peer(e)]
         /\ usrbuf'[Peer(e)] = usrbuf[Peer(e)]
         /\ reset'[e] = reset[e] /\ (reset'[Peer(e)] => reset[Peer(e)] \/ net[e] # <<>>)
         /\ Arrived(e)' = <<>> /\ Arrived(Peer(e))' = Arrived(Peer(e))
         /\ Pipe(Peer(e))' = Arrived(Peer(e)) /\ Pipe(Peer(e)) = Cat(Pipe(Peer(e))', out[e])
<1>0. PICK p \in Ends : p = Peer(e) /\ p # e /\ Peer(p) = e /\ \A d \in Ends : d = e \/ d = p
  BY PeerOf
<1>t. RioType /\ SocketInv(e) /\ SocketInv(p)
  BY DEF RioInv
<1>1. /\ open[e] /\ open'[e] = FALSE /\ open'[p] = open[p]
      /\ out'[e] = <<>> /\ out'[p] = out[p] /\ call'[e] = "none" /\ call'[p] = call[p]
      /\ net'[e] = <<>> /\ net'[p] = net[p] /\ rio_buf'[e] = <<>> /\ rio_buf'[p] = rio_buf[p]
      /\ usrbuf'[e] = <<>> /\ usrbuf'[p] = usrbuf[p]
      /\ reset'[e] = reset[e] /\ reset'[p] = (reset[p] \/ net[e] # <<>>)
  BY <1>0, <1>t DEF close, RioType
<1>2. RioType'
  BY <1>0, <1>1, <1>t, EmptySeq DEF close, RioType
<1>3. SocketInv(e)' /\ SocketInv(p)'
  BY <1>0, <1>1, <1>t DEF SocketInv
<1>4. Copied(e)' = <<>> /\ Copied(p)' = Copied(p)
  BY <1>1 DEF Copied
<1>5. Arrived(p)' = Arrived(p)
  BY <1>1, <1>4, UntouchedEnd
<1>6. <<>> \in Seq(Byte) /\ Cat(<<>>, <<>>) = <<>>
  BY EmptySeq, Joining
<1>7. Arrived(e)' = <<>>
  <2>1. Arrived(e)' = Cat(Copied(e)', Cat(rio_buf'[e], net'[e]))
    BY <1>2, PiecesNext
  <2> QED
    BY <1>1, <1>4, <1>6, <2>1, Zenon
<1>8. PICK f \in Seq(Byte) : f = Arrived(p)
  BY <1>t, Pieces
<1>9. Pipe(p)' = f
  <2>1. Pipe(p)' = Cat(Arrived(p)', out'[Peer(p)])
    BY <1>2, PiecesNext
  <2>2. Cat(f, <<>>) = f
    BY Joining
  <2> QED
    BY <1>0, <1>1, <1>5, <1>8, <2>1, <2>2, Zenon
<1>10. Pipe(p) = Cat(Arrived(p), out[Peer(p)])
  BY <1>t, Pieces
<1>11. RioInv'
  BY <1>0, <1>2, <1>3 DEF RioInv
<1>12. open' = [open EXCEPT ![e] = FALSE]
  BY DEF close
<1> QED
  BY <1>0, <1>1, <1>5, <1>7, <1>8, <1>9, <1>10, <1>11, <1>12

\* A call of rio_readlineb begins; when the rio_t is made anew it was empty.
LEMMA AwaitEffect ==
  ASSUME RioInv, NEW e \in Ends, call[e] = "none",
         rio_readlineb(e) \/ (rio_buf[e] = <<>> /\ rio_readinitb_readlineb(e))
  PROVE  /\ RioInv' /\ UNCHANGED <<open, reset, out, net, rio_buf>>
         /\ open[e] /\ call'[e] = "readlineb" /\ call'[Peer(e)] = call[Peer(e)]
         /\ usrbuf'[Peer(e)] = usrbuf[Peer(e)]
         /\ \A d \in Ends : Pipe(d)' = Pipe(d) /\ Arrived(d)' = Arrived(d)
<1>0. PICK p \in Ends : p = Peer(e) /\ p # e /\ Peer(p) = e /\ \A d \in Ends : d = e \/ d = p
  BY PeerOf
<1>t. RioType /\ SocketInv(e) /\ SocketInv(p)
  BY DEF RioInv
<1>b. rio_buf' = rio_buf
  <2>1. CASE rio_buf' = [rio_buf EXCEPT ![e] = <<>>] /\ rio_buf[e] = <<>>
    BY <1>t, <2>1 DEF RioType
  <2> QED
    BY <2>1 DEF rio_readlineb, rio_readinitb_readlineb
<1>1. /\ open[e] /\ UNCHANGED <<open, reset, out, net, rio_buf>>
      /\ usrbuf'[e] = <<>> /\ usrbuf'[p] = usrbuf[p]
      /\ call'[e] = "readlineb" /\ call'[p] = call[p]
  BY <1>0, <1>b, <1>t DEF rio_readlineb, rio_readinitb_readlineb, RioType
<1>2. RioType'
  <2>1. <<>> \in Seq(Byte)
    BY EmptySeq
  <2>2. usrbuf' = [usrbuf EXCEPT ![e] = <<>>] /\ call' = [call EXCEPT ![e] = "readlineb"]
    BY DEF rio_readlineb, rio_readinitb_readlineb
  <2>3. usrbuf' \in [Ends -> Seq(Byte)]
    BY <1>t, <2>1, <2>2 DEF RioType
  <2> QED
    BY <1>1, <1>t, <2>2, <2>3 DEF RioType
<1>3. SocketInv(e)' /\ SocketInv(p)'
  BY <1>0, <1>1, <1>t DEF SocketInv
<1>4. Copied(e)' = Copied(e) /\ Copied(p)' = Copied(p)
  BY <1>1 DEF Copied
<1>5. \A d \in Ends : Pipe(d)' = Pipe(d) /\ Arrived(d)' = Arrived(d)
  BY <1>0, <1>1, <1>4, UntouchedEnd
<1> QED
  BY <1>0, <1>1, <1>2, <1>3, <1>5 DEF RioInv

\* Characters move from the buffer of the rio_t to the line.
LEMMA TakeEffect ==
  ASSUME RioType, NEW e \in Ends, call[e] = "readlineb", NEW n \in 1..Len(rio_buf[e]),
         NEW result \in {"readlineb", "line"}, Take(e, n, result)
  PROVE  /\ RioType' /\ Pipe(e)' = Pipe(e) /\ Arrived(e)' = Arrived(e)
         /\ call'[e] = result /\ call'[Peer(e)] = call[Peer(e)]
         /\ usrbuf'[Peer(e)] = usrbuf[Peer(e)] /\ rio_buf'[Peer(e)] = rio_buf[Peer(e)]
         /\ UNCHANGED <<open, reset, out, net>>
         /\ \E x \in Seq(Byte) : /\ usrbuf'[e] = Cat(usrbuf[e], x) /\ Len(x) = n
                                 /\ \A i \in 1..n : x[i] = rio_buf[e][i]
<1>0. PICK p \in Ends : p = Peer(e) /\ p # e /\ Peer(p) = e /\ \A d \in Ends : d = e \/ d = p
  BY PeerOf
<1>b. PICK b \in Seq(Byte) : b = rio_buf[e]
  BY DEF RioType
<1>c. /\ SubSeq(b, 1, n) \in Seq(Byte) /\ SubSeq(b, n + 1, Len(b)) \in Seq(Byte)
      /\ Cat(SubSeq(b, 1, n), SubSeq(b, n + 1, Len(b))) = b
      /\ Len(SubSeq(b, 1, n)) = n /\ \A i \in 1..n : SubSeq(b, 1, n)[i] = b[i]
  <2>1. n \in 1..Len(b)
    BY <1>b
  <2> QED
    BY ONLY <2>1, b \in Seq(Byte), Cut
<1>x. PICK x \in Seq(Byte) : x = SubSeq(b, 1, n)
  BY <1>c
<1>y. PICK y \in Seq(Byte) : y = SubSeq(b, n + 1, Len(b))
  BY <1>c
<1>1. Cat(x, y) = b /\ Len(x) = n /\ \A i \in 1..n : x[i] = rio_buf[e][i]
  BY <1>b, <1>c, <1>x, <1>y, Zenon
<1>u. PICK u, w \in Seq(Byte) : u = usrbuf[e] /\ w = net[e]
  BY DEF RioType
<1>2. /\ usrbuf' = [usrbuf EXCEPT ![e] = Cat(u, x)] /\ rio_buf' = [rio_buf EXCEPT ![e] = y]
      /\ call' = [call EXCEPT ![e] = result] /\ UNCHANGED <<open, reset, out, net>>
  BY <1>b, <1>u, <1>x, <1>y DEF Take, Cat
<1>3. /\ Cat(u, x) \in Seq(Byte) /\ Cat(y, w) \in Seq(Byte)
      /\ Cat(Cat(x, y), w) = Cat(x, Cat(y, w))
  BY Joining
<1>4. Cat(Cat(u, x), Cat(y, w)) = Cat(u, Cat(x, Cat(y, w)))
  BY <1>3, Joining
<1>5. RioType'
  BY <1>2, <1>3 DEF RioType
<1>6. /\ usrbuf'[e] = Cat(u, x) /\ usrbuf'[p] = usrbuf[p] /\ rio_buf'[e] = y
      /\ rio_buf'[p] = rio_buf[p] /\ call'[e] = result /\ call'[p] = call[p]
  BY <1>0, <1>2 DEF RioType
<1>7. Copied(e)' = Cat(u, x) /\ Copied(e) = u
  BY <1>6, <1>u DEF Copied
<1>8. Arrived(e)' = Arrived(e)
  <2>1. Arrived(e)' = Cat(Copied(e)', Cat(rio_buf'[e], net'[e]))
    BY <1>5, PiecesNext
  <2>2. Arrived(e) = Cat(Copied(e), Cat(rio_buf[e], net[e]))
    BY Pieces
  <2>3. Arrived(e)' = Cat(Cat(u, x), Cat(y, w))
    BY <1>2, <1>6, <1>7, <1>u, <2>1, Zenon
  <2>4. Arrived(e) = Cat(u, Cat(Cat(x, y), w))
    BY <1>1, <1>7, <1>b, <1>u, <2>2, Zenon
  <2> QED
    BY <1>3, <1>4, <2>3, <2>4, Zenon
<1>9. Pipe(e)' = Pipe(e)
  <2>1. Pipe(e)' = Cat(Arrived(e)', out'[Peer(e)]) /\ Pipe(e) = Cat(Arrived(e), out[Peer(e)])
    BY <1>5, Pieces, PiecesNext
  <2> QED
    BY <1>2, <1>8, <2>1, Zenon
<1> QED
  BY <1>0, <1>1, <1>2, <1>5, <1>6, <1>8, <1>9, <1>u

\* A nonempty set of numbers has a smallest one.
LEMMA Smallest ==
  ASSUME NEW T \in SUBSET Nat, T # {}
  PROVE  \E n \in T : \A m \in T : n <= m
<1>1. PICK n \in T : \A m \in T : ~(<<m, n>> \in OpToRel(<, Nat))
  BY NatLessThanWellFounded, WFMin, Zenon
<1>2. \A m \in T : m \in Nat /\ n \in Nat /\ ~(m < n)
  BY <1>1 DEF OpToRel
<1> QED
  BY <1>2

\* What rio_readlineb makes of the line when it returns it or goes on.
LineRead(e) ==
    /\ usrbuf'[e] # <<>>
    /\ \A i \in 1..(Len(usrbuf'[e]) - 1) : ~usrbuf'[e][i].newline
    /\ \/ Last(usrbuf'[e]).newline
       \/ Len(usrbuf'[e]) = maxlen[e] - 1
       \/ ~open[Peer(e)] /\ rio_buf'[e] = <<>> /\ net'[e] = <<>>

\* The loop of rio_readlineb copies up to the newline and not beyond it.
LEMMA CopyEffect ==
  ASSUME RioInv, NEW e \in Ends, copy(e)
  PROVE  /\ RioType' /\ Pipe(e)' = Pipe(e) /\ Arrived(e)' = Arrived(e)
         /\ call'[e] \in {"readlineb", "line"} /\ call'[Peer(e)] = call[Peer(e)]
         /\ usrbuf'[Peer(e)] = usrbuf[Peer(e)] /\ rio_buf'[Peer(e)] = rio_buf[Peer(e)]
         /\ UNCHANGED <<open, reset, out, net>>
         /\ call'[e] = "readlineb" => \A i \in 1..Len(usrbuf'[e]) : ~usrbuf'[e][i].newline
         /\ call'[e] = "line" => LineRead(e)
<1>t. RioType /\ SocketInv(e) /\ call[e] = "readlineb" /\ rio_buf[e] # <<>>
  BY DEF RioInv, copy
<1>b. PICK b, u \in Seq(Byte) : b = rio_buf[e] /\ u = usrbuf[e]
  BY <1>t DEF RioType
<1>l. Len(b) \in Nat \ {0} /\ Len(u) \in Nat /\ \A i \in 1..Len(u) : ~u[i].newline
  BY <1>b, <1>t, ByteOf DEF SocketInv
<1>n. PICK n \in 1..Len(b), result \in {"readlineb", "line"} :
          /\ Take(e, n, result)
          /\ \A i \in 1..(n - 1) : ~b[i].newline
          /\ result = "readlineb" => ~b[n].newline
          /\ result = "line" => b[n].newline \/ Len(u) + n = maxlen[e] - 1
  <2>1. CASE Stops(e) = {}
    <3>1. Take(e, Len(b), "readlineb") /\ \A i \in 1..Len(b) : ~b[i].newline
      BY <1>b, <2>1 DEF copy, Stops
    <3>2. Len(b) \in 1..Len(b) /\ \A i \in 1..(Len(b) - 1) : i \in 1..Len(b)
      BY <1>l
    <3> QED
      BY <3>1, <3>2
  <2>2. CASE Stops(e) # {}
    <3>1. Stops(e) \in SUBSET Nat
      BY DEF Stops
    <3>2. \E k \in Stops(e) : \A m \in Stops(e) : k <= m
      BY <2>2, <3>1, Smallest
    <3>3. PICK k \in Stops(e) : Take(e, k, "line") /\ \A m \in Stops(e) : k <= m
      BY <2>2, <3>2 DEF copy
    <3>4. k \in 1..Len(b) /\ (b[k].newline \/ Len(u) + k = maxlen[e] - 1)
      BY <1>b, <3>3 DEF Stops
    <3>5. \A i \in 1..(k - 1) : i \in 1..Len(b) /\ ~(k <= i)
      BY <1>l, <3>4
    <3>6. \A i \in 1..(k - 1) : ~b[i].newline
      BY <1>b, <3>3, <3>5 DEF Stops
    <3> QED
      BY <3>3, <3>4, <3>6
  <2> QED
    BY <2>1, <2>2
<1>1. n \in 1..Len(rio_buf[e])
  BY <1>b
<1>2. /\ RioType' /\ Pipe(e)' = Pipe(e) /\ Arrived(e)' = Arrived(e)
      /\ call'[e] = result /\ call'[Peer(e)] = call[Peer(e)]
      /\ usrbuf'[Peer(e)] = usrbuf[Peer(e)] /\ rio_buf'[Peer(e)] = rio_buf[Peer(e)]
      /\ UNCHANGED <<open, reset, out, net>>
      /\ \E x \in Seq(Byte) : /\ usrbuf'[e] = Cat(usrbuf[e], x) /\ Len(x) = n
                              /\ \A i \in 1..n : x[i] = rio_buf[e][i]
  BY <1>1, <1>n, <1>t, TakeEffect
<1>3. PICK x \in Seq(Byte) : /\ usrbuf'[e] = Cat(u, x) /\ Len(x) = n
                             /\ \A i \in 1..n : x[i] = b[i]
  BY <1>2, <1>b
<1>4. PICK v \in Seq(Byte) : v = Cat(u, x)
  BY Joined
<1>5. /\ Len(v) = Len(u) + n
      /\ \A i \in 1..Len(u) : v[i] = u[i]
      /\ \A i \in 1..Len(v) : i > Len(u) => v[i] = x[i - Len(u)]
  <2>1. /\ Len(Cat(u, x)) = Len(u) + Len(x)
        /\ \A i \in 1..Len(u) : (Cat(u, x))[i] = u[i]
        /\ \A i \in 1..Len(Cat(u, x)) : i > Len(u) => (Cat(u, x))[i] = x[i - Len(u)]
    BY ONLY u \in Seq(Byte), x \in Seq(Byte), Joined
  <2> QED
    BY <1>3, <1>4, <2>1, Zenon
<1>6. v # <<>>
  BY <1>5, <1>l, ByteOf
<1>7. \A i \in 1..Len(v) : i > Len(u) => i - Len(u) \in 1..n /\ v[i] = b[i - Len(u)]
  BY <1>3, <1>5, <1>l
<1>8. \A i \in 1..(Len(v) - 1) : ~v[i].newline
  <2>1. SUFFICES ASSUME NEW i \in 1..(Len(v) - 1) PROVE ~v[i].newline
    OBVIOUS
  <2>2. CASE i <= Len(u)
    <3>1. i \in 1..Len(u)
      BY <1>5, <1>l, <2>2
    <3> QED
      BY <1>5, <1>l, <3>1
  <2>3. CASE i > Len(u)
    <3>1. i \in 1..Len(v) /\ i - Len(u) \in 1..(n - 1)
      BY <1>5, <1>l, <2>3
    <3> QED
      BY <1>7, <1>n, <2>3, <3>1
  <2> QED
    BY <1>5, <1>l, <2>2, <2>3
<1>9. Len(v) \in 1..Len(v) /\ v[Len(v)] = b[n]
  <2>1. Len(v) \in 1..Len(v) /\ Len(v) > Len(u) /\ Len(v) - Len(u) = n
    BY <1>5, <1>l
  <2> QED
    BY <1>7, <2>1
<1>10. ASSUME call'[e] = "readlineb", NEW i \in 1..Len(v)
       PROVE  ~v[i].newline
  <2>1. i = Len(v) \/ i \in 1..(Len(v) - 1)
    BY <1>5, <1>l
  <2> QED
    BY <1>2, <1>8, <1>9, <1>10, <1>n, <2>1
<1>11. ASSUME call'[e] = "line"
       PROVE  v[Len(v)].newline \/ Len(v) = maxlen[e] - 1
  BY <1>11, <1>2, <1>5, <1>9, <1>n
<1> QED
  BY <1>10, <1>11, <1>2, <1>3, <1>4, <1>6, <1>8 DEF LineRead, Last

\* rio_read moves characters from the kernel to the rio_t.
LEMMA FillEffect ==
  ASSUME RioType, NEW e \in Ends, rio_read(e)
  PROVE  /\ RioType' /\ Pipe(e)' = Pipe(e) /\ Arrived(e)' = Arrived(e)
         /\ UNCHANGED <<open, reset, out, usrbuf, call>>
         /\ rio_buf'[Peer(e)] = rio_buf[Peer(e)] /\ net'[Peer(e)] = net[Peer(e)]
<1>0. PICK p \in Ends : p = Peer(e) /\ p # e /\ Peer(p) = e /\ \A d \in Ends : d = e \/ d = p
  BY PeerOf
<1>u. PICK u, w \in Seq(Byte) : u = Copied(e) /\ w = net[e]
  BY Pieces
<1>n. PICK n \in 1..Len(w) : /\ rio_buf' = [rio_buf EXCEPT ![e] = SubSeq(w, 1, n)]
                             /\ net' = [net EXCEPT ![e] = SubSeq(w, n + 1, Len(w))]
  BY <1>u DEF rio_read
<1>c. /\ SubSeq(w, 1, n) \in Seq(Byte) /\ SubSeq(w, n + 1, Len(w)) \in Seq(Byte)
      /\ Cat(SubSeq(w, 1, n), SubSeq(w, n + 1, Len(w))) = w
  BY ONLY n \in 1..Len(w), w \in Seq(Byte), Cut
<1>x. PICK x \in Seq(Byte) : x = SubSeq(w, 1, n)
  BY <1>c
<1>y. PICK y \in Seq(Byte) : y = SubSeq(w, n + 1, Len(w))
  BY <1>c
<1>1. Cat(x, y) = w /\ rio_buf' = [rio_buf EXCEPT ![e] = x] /\ net' = [net EXCEPT ![e] = y]
  BY <1>c, <1>n, <1>x, <1>y, Zenon
<1>2. rio_buf[e] = <<>> /\ UNCHANGED <<open, reset, out, usrbuf, call>>
  BY DEF rio_read
<1>3. RioType'
  BY <1>1, <1>2 DEF RioType
<1>4. /\ rio_buf'[e] = x /\ net'[e] = y /\ rio_buf'[p] = rio_buf[p] /\ net'[p] = net[p]
  BY <1>0, <1>1 DEF RioType
<1>5. Arrived(e)' = Arrived(e)
  <2>1. Arrived(e)' = Cat(Copied(e)', Cat(rio_buf'[e], net'[e]))
    BY <1>3, PiecesNext
  <2>2. Arrived(e) = Cat(Copied(e), Cat(rio_buf[e], net[e]))
    BY Pieces
  <2>3. Copied(e)' = Copied(e)
    BY <1>2 DEF Copied
  <2>4. Cat(<<>>, w) = w
    BY Joining
  <2> QED
    BY <1>1, <1>2, <1>4, <1>u, <2>1, <2>2, <2>3, <2>4, Zenon
<1>6. Pipe(e)' = Pipe(e)
  <2>1. Pipe(e)' = Cat(Arrived(e)', out'[Peer(e)]) /\ Pipe(e) = Cat(Arrived(e), out[Peer(e)])
    BY <1>3, Pieces, PiecesNext
  <2> QED
    BY <1>2, <1>5, <2>1, Zenon
<1> QED
  BY <1>0, <1>2, <1>3, <1>4, <1>5, <1>6

\* Two sequences joined are empty when both are.
LEMMA NothingJoined ==
  ASSUME NEW s \in Seq(Byte), NEW t \in Seq(Byte)
  PROVE  (s = <<>> /\ t = <<>>) <=> Cat(s, t) = <<>>
<1>1. PICK r \in Seq(Byte) : r = Cat(s, t)
  BY Joined
<1>2. /\ Len(s) \in Nat /\ Len(t) \in Nat /\ Len(r) \in Nat /\ Len(r) = Len(s) + Len(t)
      /\ (s = <<>> <=> Len(s) = 0) /\ (t = <<>> <=> Len(t) = 0) /\ (r = <<>> <=> Len(r) = 0)
  BY <1>1, Joined, ByteOf
<1> QED
  BY <1>1, <1>2

\* Of an end with empty buffers whose peer writes nothing nothing is under way.
LEMMA EmptyPipe ==
  ASSUME RioType, NEW e \in Ends
  PROVE  /\ (Copied(e) = <<>> /\ rio_buf[e] = <<>> /\ net[e] = <<>>) <=> Arrived(e) = <<>>
         /\ (Arrived(e) = <<>> /\ out[Peer(e)] = <<>>) <=> Pipe(e) = <<>>
<1>1. PICK a, b, c, d \in Seq(Byte) : a = Copied(e) /\ b = rio_buf[e] /\ c = net[e] /\ d = out[Peer(e)]
  BY Pieces
<1>2. /\ Arrived(e) \in Seq(Byte) /\ Arrived(e) = Cat(a, Cat(b, c))
      /\ Pipe(e) = Cat(Arrived(e), d)
  BY <1>1, Pieces
<1>3. \A s, t \in Seq(Byte) : (s = <<>> /\ t = <<>>) <=> Cat(s, t) = <<>>
  BY NothingJoined
<1>4. PICK f, g \in Seq(Byte) : f = Arrived(e) /\ g = Cat(b, c)
  BY <1>2, Joined
<1>5. (b = <<>> /\ c = <<>>) <=> g = <<>>
  BY <1>3, <1>4
<1>6. (a = <<>> /\ g = <<>>) <=> f = <<>>
  <2>1. f = Cat(a, g)
    BY <1>2, <1>4
  <2> QED
    BY <1>3, <2>1
<1>7. (f = <<>> /\ d = <<>>) <=> Pipe(e) = <<>>
  <2>1. Pipe(e) = Cat(f, d)
    BY <1>2, <1>4
  <2> QED
    BY <1>3, <2>1
<1> QED
  BY <1>1, <1>4, <1>5, <1>6, <1>7, Zenon

\* The same of what comes after the line being read.
LEMMA EmptyRest ==
  ASSUME RioType, NEW e \in Ends
  PROVE  (rio_buf[e] = <<>> /\ net[e] = <<>> /\ out[Peer(e)] = <<>>) <=> Rest(e) = <<>>
<1>1. PICK b, c, d \in Seq(Byte) : b = rio_buf[e] /\ c = net[e] /\ d = out[Peer(e)]
  BY Pieces
<1>2. PICK g \in Seq(Byte) : g = Cat(b, c)
  BY Joined
<1>3. Rest(e) = Cat(g, d)
  <2>1. Rest(e) = Cat(Cat(rio_buf[e], net[e]), out[Peer(e)])
    BY Pieces
  <2> QED
    BY <1>1, <1>2, <2>1, Zenon
<1>4. (b = <<>> /\ c = <<>>) <=> g = <<>>
  BY <1>2, NothingJoined
<1>5. (g = <<>> /\ d = <<>>) <=> Cat(g, d) = <<>>
  BY NothingJoined
<1> QED
  BY <1>1, <1>3, <1>4, <1>5, Zenon

\* The end of the input leaves what has come as it is; after a reset it is
\* discarded.
LEMMA EndEffect ==
  ASSUME RioInv, NEW e \in Ends, read_eof(e) \/ read_error(e)
  PROVE  /\ RioType' /\ UNCHANGED <<open, reset, out, rio_buf, usrbuf>>
         /\ call'[e] \in {"line", "end"}
         /\ call'[Peer(e)] = call[Peer(e)] /\ net'[Peer(e)] = net[Peer(e)]
         /\ \/ Pipe(e)' = Pipe(e) /\ Arrived(e)' = Arrived(e)
            \/ reset[e] /\ Pipe(e)' = <<>> /\ Arrived(e)' = <<>>
         /\ call'[e] = "line" => LineRead(e)
         /\ call'[e] = "end" => ~open[Peer(e)] /\ (Pipe(e) = <<>> \/ reset[e])
<1>0. PICK p \in Ends : p = Peer(e) /\ p # e /\ Peer(p) = e /\ \A d \in Ends : d = e \/ d = p
  BY PeerOf
<1>t. RioType /\ SocketInv(e) /\ SocketInv(p)
  BY DEF RioInv
<1>l. Len(usrbuf[e]) \in Nat /\ (usrbuf[e] = <<>> <=> Len(usrbuf[e]) = 0)
  BY <1>t, ByteOf DEF RioType
<1>1. ~open[p] /\ out[p] = <<>>
  BY <1>0, <1>t DEF read_eof, read_error, SocketInv
<1>2. CASE read_eof(e)
  <2>1. /\ call[e] = "readlineb" /\ rio_buf[e] = <<>> /\ net[e] = <<>>
        /\ UNCHANGED <<open, reset, out, net, rio_buf, usrbuf>>
        /\ call'[e] = IF usrbuf[e] = <<>> THEN "end" ELSE "line"
        /\ call'[p] = call[p]
    BY <1>0, <1>2, <1>t DEF read_eof, RioType
  <2>2. RioType'
    BY <1>2, <1>t, <2>1 DEF read_eof, RioType
  <2>3. Copied(e)' = Copied(e)
    BY <2>1 DEF Copied
  <2>4. Pipe(e)' = Pipe(e) /\ Arrived(e)' = Arrived(e)
    BY <2>1, <2>3, UntouchedEnd
  <2>5. call'[e] = "line" => LineRead(e)
    BY <1>0, <1>1, <1>l, <1>t, <2>1 DEF LineRead, SocketInv
  <2>6. call'[e] = "end" => Pipe(e) = <<>>
    BY <1>0, <1>1, <1>t, <2>1, EmptyPipe DEF Copied
  <2> QED
    BY <1>0, <1>1, <2>1, <2>2, <2>4, <2>5, <2>6
<1>3. CASE read_error(e)
  <2>1. /\ call[e] = "readlineb" /\ rio_buf[e] = <<>> /\ reset[e]
        /\ UNCHANGED <<open, reset, out, rio_buf, usrbuf>>
        /\ net'[e] = <<>> /\ net'[p] = net[p] /\ call'[e] = "end" /\ call'[p] = call[p]
    BY <1>0, <1>3, <1>t DEF read_error, RioType
  <2>2. RioType'
    BY <1>3, <1>t, <2>1, EmptySeq DEF read_error, RioType
  <2>3. Copied(e)' = <<>>
    BY <2>1 DEF Copied
  <2>4. <<>> \in Seq(Byte) /\ Cat(<<>>, <<>>) = <<>>
    BY EmptySeq, Joining
  <2>5. Arrived(e)' = <<>>
    <3>1. Arrived(e)' = Cat(Copied(e)', Cat(rio_buf'[e], net'[e]))
      BY <2>2, PiecesNext
    <3> QED
      BY <2>1, <2>3, <2>4, <3>1, Zenon
  <2>6. Pipe(e)' = <<>>
    <3>1. Pipe(e)' = Cat(Arrived(e)', out'[Peer(e)])
      BY <2>2, PiecesNext
    <3> QED
      BY <1>0, <1>1, <2>1, <2>4, <2>5, <3>1, Zenon
  <2> QED
    BY <1>0, <1>1, <2>1, <2>2, <2>5, <2>6
<1> QED
  BY <1>2, <1>3

\* A step of rio_readlineb: nothing is lost unless the connection was reset,
\* and the call ends with a line or at the end of the input.
LEMMA ReadEffect ==
  ASSUME RioInv, NEW e \in Ends, Reading(e)
  PROVE  /\ RioInv' /\ UNCHANGED <<open, reset, out>>
         /\ open[e] /\ call[e] = "readlineb" /\ call'[e] \in {"readlineb", "line", "end"}
         /\ call'[Peer(e)] = call[Peer(e)] /\ usrbuf'[Peer(e)] = usrbuf[Peer(e)]
         /\ rio_buf'[Peer(e)] = rio_buf[Peer(e)] /\ net'[Peer(e)] = net[Peer(e)]
         /\ Pipe(Peer(e))' = Pipe(Peer(e)) /\ Arrived(Peer(e))' = Arrived(Peer(e))
         /\ \/ Pipe(e)' = Pipe(e) /\ Arrived(e)' = Arrived(e)
            \/ reset[e] /\ Pipe(e)' = <<>> /\ Arrived(e)' = <<>>
         /\ call'[e] = "line" => LineRead(e)
         /\ call'[e] = "end" => ~open[Peer(e)] /\ (Pipe(e) = <<>> \/ reset[e])
<1>0. PICK p \in Ends : p = Peer(e) /\ p # e /\ Peer(p) = e /\ \A d \in Ends : d = e \/ d = p
  BY PeerOf
<1>t. RioType /\ SocketInv(e) /\ SocketInv(p)
  BY DEF RioInv
<1>1. call[e] = "readlineb" /\ open[e]
  BY <1>t DEF Reading, rio_read, copy, read_eof, read_error, SocketInv
<1>2. /\ RioType' /\ UNCHANGED <<open, reset, out>>
      /\ call'[e] \in {"readlineb", "line", "end"}
      /\ call'[p] = call[p] /\ usrbuf'[p] = usrbuf[p]
      /\ rio_buf'[p] = rio_buf[p] /\ net'[p] = net[p]
      /\ \/ Pipe(e)' = Pipe(e) /\ Arrived(e)' = Arrived(e)
         \/ reset[e] /\ Pipe(e)' = <<>> /\ Arrived(e)' = <<>>
      /\ call'[e] = "readlineb" => \A i \in 1..Len(usrbuf'[e]) : ~usrbuf'[e][i].newline
      /\ call'[e] = "line" => LineRead(e)
      /\ call'[e] = "end" => ~open[p] /\ (Pipe(e) = <<>> \/ reset[e])
  <2>1. CASE rio_read(e)
    BY <1>0, <1>1, <1>t, <2>1, FillEffect DEF SocketInv
  <2>2. CASE copy(e)
    BY <1>0, <2>2, CopyEffect
  <2>3. CASE read_eof(e) \/ read_error(e)
    BY <1>0, <2>3, EndEffect
  <2> QED
    BY <2>1, <2>2, <2>3 DEF Reading
<1>3. Copied(p)' = Copied(p)
  BY <1>2 DEF Copied
<1>4. Pipe(p)' = Pipe(p) /\ Arrived(p)' = Arrived(p)
  BY <1>2, <1>3, UntouchedEnd
<1>5. SocketInv(e)' /\ SocketInv(p)'
  BY <1>0, <1>1, <1>2, <1>t DEF SocketInv, LineRead
<1> QED
  BY <1>0, <1>1, <1>2, <1>4, <1>5 DEF RioInv

\* A line that has been read is the next one, and the rest flows from its end
\* if the newline has come.
LEMMA LineAtEnd ==
  ASSUME RioInv, NEW e \in Ends, call[e] = "line", NEW n \in Nat, Flows(Pipe(e), n)
  PROVE  /\ open[e] /\ usrbuf[e] # <<>> /\ Copied(e) = usrbuf[e]
         /\ Last(usrbuf[e]) \in Byte
         /\ Last(usrbuf[e]).line = n + 1 /\ Last(usrbuf[e]).pos = Len(usrbuf[e])
         /\ \E j \in 1..Len(Pipe(e)) : Pipe(e)[j] = Last(usrbuf[e])
         /\ \E j \in 1..Len(Arrived(e)) : Arrived(e)[j] = Last(usrbuf[e])
         /\ Last(usrbuf[e]).newline => Flows(Rest(e), n + 1)
<1>t. RioType /\ SocketInv(e)
  BY DEF RioInv
<1>1. PICK s \in Seq(Byte) : s = usrbuf[e] /\ s # <<>>
  BY <1>t DEF RioType, SocketInv
<1>2. open[e] /\ Copied(e) = s /\ \A i \in 1..(Len(s) - 1) : ~s[i].newline
  BY <1>1, <1>t DEF SocketInv, Copied
<1>3. Len(s) \in 1..Len(s) /\ s[Len(s)] \in Byte
  BY <1>1, ByteOf
<1>4. /\ s[Len(s)].line = n + 1 /\ s[Len(s)].pos = Len(s)
      /\ s[Len(s)].newline => Flows(Rest(e), n + 1)
  <2>1. PICK t \in Seq(Byte) : t = Rest(e)
    BY <1>t, Pieces
  <2>2. Flows(Cat(s, t), n)
    <3>1. Pipe(e) = Cat(Copied(e), Rest(e))
      BY <1>t, Pieces
    <3> QED
      BY <1>2, <2>1, <3>1
  <2> QED
    BY <1>1, <1>2, <2>1, <2>2, FlowsSuffix
<1>5. Within(s, Pipe(e))
  <2>1. PICK t, u \in Seq(Byte) : t = Rest(e) /\ u = Pipe(e)
    BY <1>t, Pieces
  <2>2. u = Cat(s, t)
    BY <1>2, <1>t, <2>1, Pieces
  <2> QED
    BY <2>1, <2>2, Elements
<1>6. Within(s, Arrived(e))
  <2>1. PICK t, u \in Seq(Byte) : t = Cat(rio_buf[e], net[e]) /\ u = Arrived(e)
    BY <1>t, Pieces, Joined
  <2>2. u = Cat(s, t)
    BY <1>2, <1>t, <2>1, Pieces
  <2> QED
    BY <2>1, <2>2, Elements
<1>7. \E j \in 1..Len(Pipe(e)) : Pipe(e)[j] = s[Len(s)]
  BY <1>3, <1>5, Zenon DEF Within
<1>8. \E j \in 1..Len(Arrived(e)) : Arrived(e)[j] = s[Len(s)]
  BY <1>3, <1>6, Zenon DEF Within
<1>9. Last(usrbuf[e]) = s[Len(s)] /\ usrbuf[e] = s
  BY <1>1 DEF Last
<1> QED
  BY <1>1, <1>2, <1>3, <1>4, <1>7, <1>8, <1>9, Zenon

-----------------------------------------------------------------------------
(* The inductive invariant.                                                  *)

TalkType ==
    /\ mode \in {"program", "ahead"}
    /\ request \in {"none", "REQUEST", "BYE"}
    /\ sent \in Nat /\ asked \in Nat /\ served \in Nat /\ heard \in Nat
    /\ loop_in_progress \in BOOLEAN
    /\ killed \subseteq Ends

\* A byte of a request: of a line that fits, up to the last one sent.
RequestByte(b) ==
    /\ b.newline \/ b.pos < maxlen["server"] - 1
    /\ b.line <= sent
    /\ b.line = sent => b.op = request

\* What is under way to the ends.
PipeInv ==
    /\ open["server"] => /\ Flows(Pipe("server"), served)
                         /\ \A i \in 1..Len(Pipe("server")) : RequestByte(Pipe("server")[i])
    /\ open["client"] => /\ Flows(Pipe("client"), heard)
                         /\ \A i \in 1..Len(Pipe("client")) : Pipe("client")[i].line <= served
    /\ open["server"] /\ open["client"] => /\ EndsWith(Pipe("server"), served, sent)
                                           /\ EndsWith(Pipe("client"), heard, served)

\* A request is read to its newline, unless the client is gone.
RequestInv ==
    /\ call["server"] = "line" /\ ~Last(usrbuf["server"]).newline =>
          ~open["client"] /\ rio_buf["server"] = <<>> /\ net["server"] = <<>>
    /\ call["server"] = "end" => ~open["client"]

\* A request counts as asked from the moment its newline has come.
AskedInv ==
    /\ heard <= served /\ served <= asked /\ asked <= sent
    /\ LineEnd(out["client"], sent)
    /\ Completed(Arrived("server"), asked)
    /\ call["client"] = "writen" => asked < sent
    /\ open["server"] /\ open["client"] =>
          sent = IF call["client"] = "writen" THEN asked + 1 ELSE asked

\* A program of the repository sends a request when it has heard the response
\* to the last.  A thread that ends the conversation by itself has written an
\* answer after which the program will close.
ProgramInv ==
    /\ ~open["server"] /\ "server" \notin killed => ~loop_in_progress
    /\ mode = "program" =>
          /\ sent <= heard + 1
          /\ call["client"] \in {"none", "writen"} => rio_buf["client"] = <<>>
          /\ open["client"] /\ ~loop_in_progress /\ "server" \notin killed =>
                /\ heard < served /\ ~reset["client"]
                /\ Pipe("client") # <<>>
                /\ \/ request = "BYE"
                   \/ \A i \in 1..Len(Pipe("client")) : Pipe("client")[i].op = "REFUSED"

ConversationInv ==
    /\ RioInv /\ TalkType
    /\ PipeInv /\ RequestInv /\ AskedInv /\ ProgramInv
    /\ AnswerArrives

-----------------------------------------------------------------------------
(* What a step leaves of the invariant.                                      *)

\* The two ends of the conversation.
LEMMA TwoEnds ==
  /\ "client" \in Ends /\ "server" \in Ends /\ "client" # "server"
  /\ Peer("client") = "server" /\ Peer("server") = "client"
  /\ \A d \in Ends : d = "client" \/ d = "server"
  BY DEF Ends, Peer

\* When an end closes its socket, the peer is left with what had come to it.
LEMMA ClosePipes ==
  ASSUME RioInv, TalkType, PipeInv, RequestInv, AskedInv, NEW e \in Ends, close(e),
         UNCHANGED <<request, sent, asked, served>>,
         heard' \in Nat, heard' <= served, e = "server" => heard' = heard
  PROVE  RioInv' /\ PipeInv' /\ RequestInv' /\ AskedInv'
<1>0. PICK p \in Ends : p = Peer(e) /\ p # e
  BY PeerOf
<1>a. /\ RioInv' /\ open[e] /\ open' = [open EXCEPT ![e] = FALSE]
      /\ call'[e] = "none" /\ call'[Peer(e)] = call[Peer(e)]
      /\ out'[e] = <<>> /\ out'[Peer(e)] = out[Peer(e)] /\ net'[Peer(e)] = net[Peer(e)]
      /\ rio_buf'[Peer(e)] = rio_buf[Peer(e)] /\ usrbuf'[Peer(e)] = usrbuf[Peer(e)]
      /\ Arrived(e)' = <<>> /\ Arrived(Peer(e))' = Arrived(Peer(e))
      /\ Pipe(Peer(e)) = Cat(Pipe(Peer(e))', out[e])
  BY CloseEffect
<1>c. /\ RioInv' /\ open[e] /\ open' = [open EXCEPT ![e] = FALSE]
      /\ call'[e] = "none" /\ call'[p] = call[p]
      /\ out'[e] = <<>> /\ out'[p] = out[p] /\ net'[p] = net[p]
      /\ rio_buf'[p] = rio_buf[p] /\ usrbuf'[p] = usrbuf[p]
      /\ Arrived(e)' = <<>> /\ Arrived(p)' = Arrived(p)
      /\ Pipe(p) = Cat(Pipe(p)', out[e])
  BY <1>0, <1>a, Zenon
<1>t. RioType /\ RioType' /\ SocketInv(e) /\ SocketInv(p)
  BY <1>c DEF RioInv
<1>o. open'[e] = FALSE /\ open'[p] = open[p]
  BY <1>0, <1>c, <1>t DEF RioType
<1>u. PICK u \in Seq(Byte) : u = Pipe(p)
  BY <1>t, Pieces
<1>s. PICK s \in Seq(Byte) : s = Pipe(p)'
  BY <1>t, PiecesNext
<1>y. PICK y \in Seq(Byte) : y = out[e]
  BY <1>t DEF RioType
<1>1. u = Cat(s, y)
  BY <1>c, <1>s, <1>u, <1>y, Zenon
<1>2. Within(s, u)
  BY <1>1, Elements
<1>3. ASSUME NEW n \in Nat, Flows(u, n) PROVE Flows(s, n)
  BY <1>1, <1>3, FlowsPrefix
<1>4. CASE e = "client"
  <2>1. p = "server"
    BY <1>0, <1>4, TwoEnds
  <2>2. ASSUME open["server"]
        PROVE  Flows(s, served) /\ \A i \in 1..Len(s) : RequestByte(s[i])
    <3>1. Flows(u, served) /\ \A i \in 1..Len(u) : RequestByte(u[i])
      BY <1>u, <2>1, <2>2 DEF PipeInv
    <3> QED
      BY <1>2, <1>3, <3>1 DEF TalkType, Within
  <2>3. PipeInv'
    BY <1>4, <1>o, <1>s, <2>1, <2>2 DEF PipeInv, RequestByte
  <2>4. RequestInv'
    BY <1>4, <1>c, <1>o, <2>1 DEF RequestInv
  <2>5. AskedInv'
    BY <1>4, <1>c, <1>o, <2>1 DEF AskedInv, TalkType, LineEnd
  <2> QED
    BY <1>c, <2>3, <2>4, <2>5
<1>5. CASE e = "server"
  <2>1. p = "client" /\ heard' = heard
    BY <1>0, <1>5, TwoEnds
  <2>2. ASSUME open["client"]
        PROVE  Flows(s, heard) /\ \A i \in 1..Len(s) : s[i].line <= served
    <3>1. Flows(u, heard) /\ \A i \in 1..Len(u) : u[i].line <= served
      BY <1>u, <2>1, <2>2 DEF PipeInv
    <3> QED
      BY <1>2, <1>3, <3>1 DEF TalkType, Within
  <2>3. PipeInv'
    BY <1>5, <1>o, <1>s, <2>1, <2>2 DEF PipeInv
  <2>4. RequestInv'
    BY <1>5, <1>c DEF RequestInv
  <2>5. AskedInv'
    BY <1>5, <1>c, <1>o, <2>1 DEF AskedInv, TalkType, Completed
  <2> QED
    BY <1>c, <2>3, <2>4, <2>5
<1> QED
  BY <1>4, <1>5, TwoEnds

\* Steps that leave both pipes, the counters and the ends' states alone.
LEMMA SamePipes ==
  ASSUME PipeInv, AskedInv, UNCHANGED <<open, out, request, counters>>,
         \A d \in Ends : Pipe(d)' = Pipe(d) /\ Arrived(d)' = Arrived(d),
         call'["client"] = "writen" <=> call["client"] = "writen"
  PROVE  PipeInv' /\ AskedInv'
  BY TwoEnds DEF PipeInv, AskedInv, RequestByte, counters

-----------------------------------------------------------------------------
(* The steps of the two ends.                                                *)

\* A call of rio_readlineb begins; the rio_t a program makes anew was empty.
LEMMA AwaitKeeps ==
  ASSUME ConversationInv, await_response \/ await_request
  PROVE  ConversationInv'
<1>i. RioInv /\ TalkType /\ PipeInv /\ RequestInv /\ AskedInv /\ ProgramInv /\ AnswerArrives
  BY DEF ConversationInv
<1>1. PICK e \in Ends :
          /\ call[e] = "none"
          /\ rio_readlineb(e) \/ (rio_buf[e] = <<>> /\ rio_readinitb_readlineb(e))
          /\ UNCHANGED talk
  BY <1>i, TwoEnds DEF await_response, await_request, ProgramInv
<1>2. /\ RioInv' /\ UNCHANGED <<open, reset, out, net, rio_buf>>
      /\ open[e] /\ call'[e] = "readlineb" /\ call'[Peer(e)] = call[Peer(e)]
      /\ usrbuf'[Peer(e)] = usrbuf[Peer(e)]
      /\ \A d \in Ends : Pipe(d)' = Pipe(d) /\ Arrived(d)' = Arrived(d)
  BY <1>1, <1>i, AwaitEffect
<1>3. UNCHANGED <<mode, request, sent, asked, served, heard, loop_in_progress, killed>>
  BY <1>1 DEF talk, counters
<1>4. call'["client"] = "writen" <=> call["client"] = "writen"
  BY <1>1, <1>2, TwoEnds
<1>5. PipeInv' /\ AskedInv'
  BY <1>2, <1>3, <1>4, <1>i, SamePipes DEF counters
<1>6. RequestInv'
  BY <1>2, <1>i, TwoEnds DEF RequestInv
<1>7. ProgramInv' /\ AnswerArrives'
  BY <1>1, <1>2, <1>3, <1>i, TwoEnds DEF ProgramInv, AnswerArrives
<1>8. TalkType'
  BY <1>3, <1>i DEF TalkType
<1> QED
  BY <1>2, <1>5, <1>6, <1>7, <1>8 DEF ConversationInv

\* An end closes: the client gives up, the thread is done, or a process dies.
\* The thread is done when all its answers are written, and closes with nothing
\* unread when the client is a program that waits for the last of them.
LEMMA CloseKeeps ==
  ASSUME ConversationInv, give_up \/ close_connection \/ \E e \in Ends : Kill(e)
  PROVE  ConversationInv'
<1>i. RioInv /\ TalkType /\ PipeInv /\ RequestInv /\ AskedInv /\ ProgramInv /\ AnswerArrives
  BY DEF ConversationInv
<1>1. PICK e \in Ends :
          /\ close(e) /\ UNCHANGED <<mode, request, counters, loop_in_progress>>
          /\ killed' \in {killed, killed \cup {e}}
          /\ e = "server" => \/ e \in killed'
                             \/ ~loop_in_progress /\ call["server"] = "none"
  BY TwoEnds DEF give_up, close_connection, Kill, talk
<1>2. UNCHANGED <<mode, request, sent, asked, served, heard, loop_in_progress>>
  BY <1>1 DEF counters
<1>3. TalkType'
  BY <1>1, <1>2, <1>i DEF TalkType
<1>4. RioInv' /\ PipeInv' /\ RequestInv' /\ AskedInv'
  <2>1. heard' \in Nat /\ heard' <= served
    BY <1>2, <1>i DEF TalkType, AskedInv
  <2> QED
    BY <1>1, <1>2, <1>i, <2>1, ClosePipes
<1>5. /\ open[e] /\ open' = [open EXCEPT ![e] = FALSE]
      /\ call'[e] = "none" /\ call'[Peer(e)] = call[Peer(e)]
      /\ rio_buf'[e] = <<>> /\ rio_buf'[Peer(e)] = rio_buf[Peer(e)]
      /\ reset'[e] = reset[e] /\ (reset'[Peer(e)] => reset[Peer(e)] \/ net[e] # <<>>)
      /\ Pipe(Peer(e))' = Arrived(Peer(e)) /\ Pipe(Peer(e)) = Cat(Pipe(Peer(e))', out[e])
  BY <1>1, <1>i, CloseEffect
<1>t. RioType /\ SocketInv("server") /\ SocketInv("client")
  BY <1>i, TwoEnds DEF RioInv
<1>o. open'[e] = FALSE /\ open'[Peer(e)] = open[Peer(e)]
  BY <1>5, <1>t, PeerOf DEF RioType
<1>6. AnswerArrives'
  BY <1>1, <1>2, <1>5, <1>i, TwoEnds DEF AnswerArrives
<1>7. ProgramInv'
  <2>1. CASE e = "client"
    BY <1>1, <1>2, <1>5, <1>i, <1>o, <2>1, TwoEnds DEF ProgramInv
  <2>2. CASE e = "server" /\ "server" \in killed'
    BY <1>1, <1>2, <1>5, <1>i, <1>o, <2>2, TwoEnds DEF ProgramInv
  <2>3. CASE e = "server" /\ "server" \notin killed'
    <3>1. /\ ~loop_in_progress /\ call["server"] = "none" /\ open["server"]
          /\ "server" \notin killed
      BY <1>1, <1>5, <2>3
    <3>2. out["server"] = <<>>
      BY <1>t, <3>1 DEF SocketInv
    <3>3. PICK s \in Seq(Byte) : s = Pipe("client")'
      BY <1>4, PiecesNext, TwoEnds DEF RioInv
    <3>4. Pipe("client")' = Pipe("client")
      <4>1. Cat(s, <<>>) = s
        BY Joining
      <4> QED
        BY <1>5, <2>3, <3>2, <3>3, <4>1, TwoEnds, Zenon
    <3>5. ASSUME mode = "program", open["client"]
          PROVE  net["server"] = <<>>
      <4>1. heard < served /\ sent <= heard + 1
        BY <1>i, <3>1, <3>5 DEF ProgramInv
      <4>2. sent = served
        BY <1>i, <4>1 DEF AskedInv, TalkType
      <4>3. PICK u \in Seq(Byte) : u = Pipe("server")
        BY <1>t, Pieces, TwoEnds
      <4>4. Flows(u, served) /\ \A i \in 1..Len(u) : u[i].line <= served
        BY <1>i, <3>1, <4>2, <4>3 DEF PipeInv, RequestByte
      <4>5. u = <<>>
        BY <1>i, <4>4, NothingLeft DEF TalkType
      <4> QED
        BY <1>t, <4>3, <4>5, EmptyPipe, TwoEnds
    <3> QED
      BY <1>2, <1>5, <1>i, <1>o, <2>3, <3>1, <3>4, <3>5, TwoEnds DEF ProgramInv
  <2> QED
    BY <2>1, <2>2, <2>3, TwoEnds
<1> QED
  BY <1>3, <1>4, <1>6, <1>7 DEF ConversationInv

\* The client begins to send the next request.
LEMMA SendKeeps ==
  ASSUME ConversationInv, send_request
  PROVE  ConversationInv'
<1>i. RioInv /\ TalkType /\ PipeInv /\ RequestInv /\ AskedInv /\ ProgramInv /\ AnswerArrives
  BY DEF ConversationInv
<1>t. RioType /\ SocketInv("server") /\ SocketInv("client")
  BY <1>i, TwoEnds DEF RioInv
<1>1. PICK len \in Lengths, op \in {"REQUEST", "BYE"} :
          rio_writen("client", Text(op, sent + 1, len)) /\ request' = op
  BY DEF send_request
<1>2. /\ call["client"] = "none" /\ sent' = sent + 1 /\ (mode = "program" => heard = sent)
      /\ UNCHANGED <<mode, asked, served, heard, loop_in_progress, killed>>
  BY DEF send_request
<1>q. PICK q \in Nat : q = sent + 1
  BY <1>i DEF TalkType
<1>x. PICK x \in Seq(Byte) : x = Text(op, q, len)
  BY <1>q, TextOf DEF Ops
<1>3. /\ len \in Nat \ {0} /\ len < maxlen["server"] /\ Len(x) = len /\ x # <<>>
      /\ \A i \in 1..len : /\ x[i].line = q /\ x[i].pos = i
                           /\ x[i].newline <=> i = len
                           /\ x[i].op = op
  <2>1. /\ len \in Nat \ {0} /\ len < maxlen["server"] /\ Len(x) = len
        /\ \A i \in 1..len : /\ x[i].line = q /\ x[i].pos = i
                             /\ x[i].newline <=> i = len
                             /\ x[i].op = op
    BY <1>x, TextOf DEF Ops
  <2>2. x = <<>> <=> Len(x) = 0
    BY ByteOf
  <2> QED
    BY <2>1, <2>2
<1>4. rio_writen("client", x)
  BY <1>1, <1>q, <1>x, Zenon
<1>5. /\ RioInv' /\ UNCHANGED <<open, reset, net, rio_buf, usrbuf>>
      /\ open["client"] /\ call'["client"] = "writen" /\ call'["server"] = call["server"]
      /\ out'["client"] = x /\ out'["server"] = out["server"]
      /\ Pipe("server")' = Cat(Pipe("server"), x) /\ Arrived("server")' = Arrived("server")
      /\ Pipe("client") = Cat(Copied("client"), Pipe("client")')
  BY <1>3, <1>4, <1>i, SayEffect, TwoEnds
<1>6. Pipe("client")' = Pipe("client")
  <2>1. PICK s \in Seq(Byte) : s = Pipe("client")'
    BY <1>5, PiecesNext, TwoEnds DEF RioInv
  <2>2. Copied("client") = <<>> /\ Cat(<<>>, s) = s
    BY <1>2, Joining DEF Copied
  <2> QED
    BY <1>5, <2>1, <2>2, Zenon
<1>u. PICK u \in Seq(Byte) : u = Pipe("server")
  BY <1>t, Pieces, TwoEnds
<1>v. PICK v \in Seq(Byte) : v = Pipe("server")' /\ v = Cat(u, x)
  BY <1>5, <1>u, PiecesNext, TwoEnds DEF RioInv
<1>7. ASSUME open["server"]
      PROVE  /\ Flows(v, served) /\ EndsWith(v, served, q)
             /\ \A i \in 1..Len(v) : RequestByte(v[i])'
  <2>1. /\ Flows(u, served) /\ EndsWith(u, served, sent)
        /\ \A i \in 1..Len(u) : RequestByte(u[i])
    BY <1>5, <1>7, <1>i, <1>u DEF PipeInv
  <2>2. Flows(v, served) /\ EndsWith(v, served, q)
    <3>1. sent \in Nat /\ served \in Nat /\ op \in Ops
      BY <1>i DEF TalkType, Ops
    <3>2. Flows(Cat(u, Text(op, q, len)), served) /\ EndsWith(Cat(u, Text(op, q, len)), served, q)
      BY <1>q, <2>1, <3>1, FlowsAppend
    <3> QED
      BY <1>v, <1>x, <3>2, Zenon
  <2>3. ASSUME NEW i \in 1..Len(u) PROVE RequestByte(u[i])'
    <3>1. u[i].line \in Nat
      BY ByteOf
    <3> QED
      BY <1>2, <1>i, <2>1, <3>1 DEF RequestByte, TalkType
  <2>4. ASSUME NEW i \in 1..Len(x) PROVE RequestByte(x[i])'
    <3>1. i \in 1..len /\ x[i].line = sent' /\ x[i].op = request'
      BY <1>1, <1>2, <1>3, <1>q
    <3>2. x[i].newline \/ x[i].pos < maxlen["server"] - 1
      <4>1. maxlen["server"] \in Nat
        BY RioAssumption, TwoEnds
      <4> QED
        BY <1>3, <3>1, <4>1
    <3> QED
      BY <1>2, <1>i, <3>1, <3>2 DEF RequestByte, TalkType
  <2>5. Mixed(v, u, x)
    BY <1>v, Elements
  <2> QED
    BY <2>2, <2>3, <2>4, <2>5 DEF Mixed
<1>8. PipeInv'
  BY <1>2, <1>5, <1>6, <1>7, <1>i, <1>q, <1>v DEF PipeInv
<1>9. RequestInv'
  BY <1>5, <1>i DEF RequestInv
<1>10. AskedInv'
  BY <1>2, <1>3, <1>5, <1>i, <1>q DEF AskedInv, TalkType, LineEnd
<1>11. ProgramInv' /\ AnswerArrives'
  BY <1>2, <1>5, <1>6, <1>i DEF ProgramInv, AnswerArrives, AskedInv, TalkType
<1>12. TalkType'
  BY <1>1, <1>2, <1>i DEF TalkType
<1> QED
  BY <1>5, <1>8, <1>9, <1>10, <1>11, <1>12 DEF ConversationInv

\* Bytes of a request or of an answer go to the kernel.  The newline of a
\* request is the last of them.
LEMMA WriteKeeps ==
  ASSUME ConversationInv, NEW e \in Ends, Write(e)
  PROVE  ConversationInv'
<1>i. RioInv /\ TalkType /\ PipeInv /\ RequestInv /\ AskedInv /\ ProgramInv /\ AnswerArrives
  BY DEF ConversationInv
<1>t. RioType /\ SocketInv("server") /\ SocketInv("client")
  BY <1>i, TwoEnds DEF RioInv
<1>1. /\ write(e) /\ UNCHANGED <<mode, request, sent, served, heard, loop_in_progress, killed>>
      /\ asked' = IF e = "client" /\ out'[e] = <<>> THEN sent ELSE asked
  BY DEF Write
<1>2. /\ RioInv' /\ UNCHANGED <<open, reset, rio_buf, usrbuf>>
      /\ open[e] /\ open[Peer(e)] /\ call[e] = "writen"
      /\ call'[e] = IF out'[e] = <<>> THEN "none" ELSE "writen"
      /\ call'[Peer(e)] = call[Peer(e)] /\ out'[Peer(e)] = out[Peer(e)]
      /\ Pipe(e)' = Pipe(e) /\ Pipe(Peer(e))' = Pipe(Peer(e)) /\ Arrived(e)' = Arrived(e)
      /\ \E x \in Seq(Byte) : /\ out[e] = Cat(x, out'[e])
                              /\ Arrived(Peer(e))' = Cat(Arrived(Peer(e)), x)
  BY <1>1, <1>i, WriteEffect
<1>3. \A d \in Ends : Pipe(d)' = Pipe(d)
  BY <1>2, TwoEnds
<1>4. PipeInv'
  BY <1>1, <1>2, <1>3, <1>i, TwoEnds DEF PipeInv, RequestByte
<1>5. RequestInv'
  BY <1>2, <1>i, TwoEnds DEF RequestInv
<1>6. AskedInv'
  <2>1. CASE e = "server"
    BY <1>1, <1>2, <1>i, <2>1, TwoEnds DEF AskedInv
  <2>2. CASE e = "client"
    <3>1. PICK x \in Seq(Byte) : /\ out["client"] = Cat(x, out'["client"])
                                 /\ Arrived("server")' = Cat(Arrived("server"), x)
      BY <1>2, <2>2, TwoEnds
    <3>2. asked' = IF out'["client"] = <<>> THEN sent ELSE asked
      BY <1>1, <2>2
    <3>3. asked <= asked' /\ asked' <= sent /\ asked' \in Nat /\ sent \in Nat
      BY <1>i, <3>2 DEF AskedInv, TalkType
    <3>4. LineEnd(out'["client"], sent) /\ Completed(x, asked')
      <4>1. PICK y, o \in Seq(Byte) : o = out["client"] /\ y = out'["client"]
        BY <1>2, <1>t, TwoEnds DEF RioInv, RioType
      <4>2. o = Cat(x, y) /\ LineEnd(o, sent) /\ sent \in Nat /\ asked' \in Nat
        BY <1>i, <3>1, <3>3, <4>1 DEF AskedInv
      <4>3. y = <<>> => sent <= asked'
        BY <3>2, <3>3, <4>1
      <4>4. LineEnd(y, sent) /\ Completed(x, asked')
        BY <4>2, <4>3, WrittenPart
      <4> QED
        BY <4>1, <4>4
    <3>5. Completed(Arrived("server")', asked')
      <4>1. PICK a, b \in Seq(Byte) : a = Arrived("server") /\ b = Arrived("server")'
        BY <1>2, <1>t, Pieces, PiecesNext, TwoEnds DEF RioInv
      <4>2. b = Cat(a, x)
        BY <3>1, <4>1
      <4>3. Completed(a, asked')
        <5>1. \A i \in 1..Len(a) : a[i].line \in Nat
          BY ByteOf
        <5>2. Completed(a, asked)
          BY <1>i, <4>1 DEF AskedInv
        <5> QED
          BY <1>i, <3>3, <5>1, <5>2 DEF TalkType, Completed
      <4>4. Completed(b, asked')
        BY <3>4, <4>2, <4>3, CompletedLines
      <4> QED
        BY <4>1, <4>4
    <3>6. sent = IF call'["client"] = "writen" THEN asked' + 1 ELSE asked'
      BY <1>2, <1>i, <2>2, <3>2, TwoEnds DEF AskedInv
    <3>7. call'["client"] = "writen" => asked' < sent
      BY <1>2, <1>i, <2>2, <3>2, TwoEnds DEF AskedInv
    <3>8. heard <= served /\ served <= asked'
      BY <1>i, <3>3 DEF AskedInv, TalkType
    <3> QED
      BY <1>1, <3>3, <3>4, <3>5, <3>6, <3>7, <3>8 DEF AskedInv
  <2> QED
    BY <2>1, <2>2, TwoEnds
<1>7. ProgramInv' /\ AnswerArrives'
  BY <1>1, <1>2, <1>3, <1>i, TwoEnds DEF ProgramInv, AnswerArrives
<1>8. TalkType'
  BY <1>1, <1>i DEF TalkType
<1> QED
  BY <1>2, <1>4, <1>5, <1>6, <1>7, <1>8 DEF ConversationInv

\* What is written to an end that has closed is lost; a program of the
\* repository never does that while the server's process is alive.
LEMMA LostKeeps ==
  ASSUME ConversationInv, NEW e \in Ends, WriteLost(e)
  PROVE  ConversationInv'
<1>i. RioInv /\ TalkType /\ PipeInv /\ RequestInv /\ AskedInv /\ ProgramInv /\ AnswerArrives
  BY DEF ConversationInv
<1>1. write_lost(e) /\ UNCHANGED <<mode, request, sent, asked, served, heard, loop_in_progress, killed>>
  BY DEF WriteLost, talk, counters
<1>2. /\ RioInv' /\ UNCHANGED <<open, net, rio_buf, usrbuf>>
      /\ open[e] /\ ~open[Peer(e)] /\ call[e] = "writen" /\ call'[e] = "none"
      /\ call'[Peer(e)] = call[Peer(e)] /\ reset'[Peer(e)] = reset[Peer(e)]
      /\ out'[e] = <<>> /\ out'[Peer(e)] = out[Peer(e)]
      /\ Pipe(e)' = Pipe(e) /\ Arrived(e)' = Arrived(e)
      /\ Arrived(Peer(e))' = Arrived(Peer(e))
  BY <1>1, <1>i, LostEffect
<1>3. PipeInv'
  BY <1>1, <1>2, <1>i, TwoEnds DEF PipeInv, RequestByte
<1>4. RequestInv'
  BY <1>2, <1>i, TwoEnds DEF RequestInv
<1>5. AskedInv'
  BY <1>1, <1>2, <1>i, TwoEnds DEF AskedInv, LineEnd
<1>6. ASSUME e = "client", mode = "program" PROVE "server" \in killed
  <2>1. SUFFICES ASSUME "server" \notin killed PROVE FALSE
    OBVIOUS
  <2>2. ~loop_in_progress /\ open["client"]
    BY <1>2, <1>6, <1>i, <2>1, TwoEnds DEF ProgramInv
  <2>3. heard < served /\ sent <= heard + 1 /\ served <= asked /\ asked < sent
    BY <1>2, <1>6, <1>i, <2>1, <2>2 DEF ProgramInv, AskedInv
  <2> QED
    BY <1>i, <2>3 DEF TalkType
<1>7. ProgramInv' /\ AnswerArrives'
  BY <1>1, <1>2, <1>6, <1>i, TwoEnds DEF ProgramInv, AnswerArrives
<1>8. TalkType'
  BY <1>1, <1>i DEF TalkType
<1> QED
  BY <1>2, <1>3, <1>4, <1>5, <1>7, <1>8 DEF ConversationInv

\* A step of rio_readlineb.  The thread's line is never cut short by the size
\* of its buffer, and a program finds the end of its input only when the
\* server's process has died.
LEMMA ReadKeeps ==
  ASSUME ConversationInv, NEW e \in Ends, Read(e)
  PROVE  ConversationInv'
<1>i. RioInv /\ TalkType /\ PipeInv /\ RequestInv /\ AskedInv /\ ProgramInv /\ AnswerArrives
  BY DEF ConversationInv
<1>t. RioType /\ SocketInv("server") /\ SocketInv("client")
  BY <1>i, TwoEnds DEF RioInv
<1>1. Reading(e) /\ UNCHANGED <<mode, request, sent, asked, served, heard, loop_in_progress, killed>>
  BY DEF Read, talk, counters
<1>2. /\ RioInv' /\ UNCHANGED <<open, reset, out>>
      /\ open[e] /\ call[e] = "readlineb" /\ call'[e] \in {"readlineb", "line", "end"}
      /\ call'[Peer(e)] = call[Peer(e)] /\ usrbuf'[Peer(e)] = usrbuf[Peer(e)]
      /\ rio_buf'[Peer(e)] = rio_buf[Peer(e)] /\ net'[Peer(e)] = net[Peer(e)]
      /\ Pipe(Peer(e))' = Pipe(Peer(e)) /\ Arrived(Peer(e))' = Arrived(Peer(e))
      /\ \/ Pipe(e)' = Pipe(e) /\ Arrived(e)' = Arrived(e)
         \/ reset[e] /\ Pipe(e)' = <<>> /\ Arrived(e)' = <<>>
      /\ call'[e] = "line" => LineRead(e)
      /\ call'[e] = "end" => ~open[Peer(e)] /\ (Pipe(e) = <<>> \/ reset[e])
  BY <1>1, <1>i, ReadEffect
<1>3. reset[e] => ~open[Peer(e)]
  BY <1>t, TwoEnds DEF SocketInv
<1>4. PipeInv'
  <2>1. CASE Pipe(e)' = Pipe(e)
    BY <1>1, <1>2, <1>i, <2>1, TwoEnds DEF PipeInv, RequestByte
  <2>2. CASE Pipe(e)' = <<>> /\ ~open[Peer(e)]
    <3>1. Flows(<<>>, served) /\ Flows(<<>>, heard)
      BY NothingFlows
    <3> QED
      BY <1>1, <1>2, <1>i, <2>2, <3>1, TwoEnds DEF PipeInv, RequestByte
  <2> QED
    BY <1>2, <1>3, <2>1, <2>2
<1>5. AskedInv'
  <2>1. Completed(<<>>, asked)
    BY DEF Completed
  <2> QED
    BY <1>1, <1>2, <1>i, <2>1, TwoEnds DEF AskedInv
<1>6. RequestInv'
  <2>1. CASE e = "client"
    BY <1>2, <1>i, <2>1, TwoEnds DEF RequestInv
  <2>2. CASE e = "server"
    <3>1. SUFFICES ASSUME call'["server"] = "line", ~Last(usrbuf'["server"]).newline
                   PROVE  Len(usrbuf'["server"]) # maxlen["server"] - 1
      BY <1>2, <2>2, TwoEnds DEF RequestInv, LineRead
    <3>2. PICK s, t, u \in Seq(Byte) :
              s = Copied("server")' /\ t = Rest("server")' /\ u = Pipe("server")'
      BY <1>2, PiecesNext, TwoEnds DEF RioInv
    <3>3. u = Cat(s, t)
      BY <1>2, <3>2, PiecesNext, TwoEnds DEF RioInv
    <3>4. s = usrbuf'["server"] /\ s # <<>> /\ \A i \in 1..(Len(s) - 1) : ~s[i].newline
      BY <1>2, <2>2, <3>1, <3>2 DEF Copied, LineRead
    <3>5. Flows(u, served) /\ \A i \in 1..Len(u) : RequestByte(u[i])
      BY <1>1, <1>2, <1>4, <2>2, <3>2 DEF PipeInv, RequestByte
    <3>6. s[Len(s)].pos = Len(s)
      <4>1. Flows(Cat(s, t), served) /\ served \in Nat
        BY <1>i, <3>3, <3>5 DEF TalkType
      <4> QED
        BY <3>4, <4>1, FlowsSuffix
    <3>7. Within(s, u) /\ Len(s) \in 1..Len(s)
      BY <3>3, <3>4, Elements, ByteOf
    <3>8. RequestByte(s[Len(s)])
      BY <3>5, <3>7 DEF Within
    <3>9. Len(s) < maxlen["server"] - 1 /\ Len(s) \in Nat /\ maxlen["server"] \in Nat
      BY <3>1, <3>4, <3>6, <3>7, <3>8, RioAssumption, TwoEnds DEF RequestByte, Last
    <3> QED
      BY <3>4, <3>9
  <2> QED
    BY <2>1, <2>2, TwoEnds
<1>7. ProgramInv'
  BY <1>1, <1>2, <1>i, TwoEnds DEF ProgramInv
<1>8. AnswerArrives'
  BY <1>1, <1>2, <1>i, TwoEnds DEF ProgramInv, AnswerArrives
<1>9. TalkType'
  BY <1>1, <1>i DEF TalkType
<1> QED
  BY <1>2, <1>4, <1>5, <1>6, <1>7, <1>8, <1>9 DEF ConversationInv

\* The thread's loop ends with the input.
LEMMA EndKeeps ==
  ASSUME ConversationInv, end_of_input
  PROVE  ConversationInv'
<1>i. RioInv /\ TalkType /\ PipeInv /\ RequestInv /\ AskedInv /\ ProgramInv /\ AnswerArrives
  BY DEF ConversationInv
<1>t. RioType /\ SocketInv("server") /\ SocketInv("client")
  BY <1>i, TwoEnds DEF RioInv
<1>1. /\ call["server"] = "end" /\ call' = [call EXCEPT !["server"] = "none"]
      /\ loop_in_progress' = FALSE
      /\ UNCHANGED <<open, reset, out, net, rio_buf, usrbuf, mode, request, counters, killed>>
  BY DEF end_of_input
<1>2. call'["server"] = "none" /\ call'["client"] = call["client"]
  BY <1>1, <1>t, TwoEnds DEF RioType
<1>3. RioInv'
  <2>1. RioType'
    BY <1>1, <1>t DEF RioType
  <2>2. SocketInv("server")' /\ SocketInv("client")'
    BY <1>1, <1>2, <1>t, TwoEnds DEF SocketInv
  <2> QED
    BY <2>1, <2>2, TwoEnds DEF RioInv
<1>4. \A d \in Ends : Pipe(d)' = Pipe(d) /\ Arrived(d)' = Arrived(d)
  <2>1. \A d \in Ends : Copied(d)' = Copied(d)
    BY <1>1, <1>2, TwoEnds DEF Copied
  <2> QED
    BY <1>1, <2>1, UntouchedEnd
<1>5. PipeInv' /\ AskedInv'
  BY <1>1, <1>2, <1>4, <1>i, SamePipes
<1>6. RequestInv' /\ ProgramInv' /\ AnswerArrives' /\ TalkType'
  BY <1>1, <1>2, <1>i DEF RequestInv, ProgramInv, AnswerArrives, TalkType, counters
<1> QED
  BY <1>3, <1>5, <1>6 DEF ConversationInv

\* What comes after a line that has been read to its newline: it goes on with
\* the next line and ends where everything under way did.
LEMMA AfterLine ==
  ASSUME RioInv, NEW e \in Ends, call[e] = "line", NEW n \in Nat, Flows(Pipe(e), n),
         Last(usrbuf[e]).newline
  PROVE  /\ Rest(e) \in Seq(Byte) /\ Flows(Rest(e), n + 1) /\ Within(Rest(e), Pipe(e))
         /\ \A m \in Nat : EndsWith(Pipe(e), n, m) => EndsWith(Rest(e), n + 1, m)
<1>t. RioType
  BY DEF RioInv
<1>1. PICK s, t, u \in Seq(Byte) : s = usrbuf[e] /\ t = Rest(e) /\ u = Pipe(e)
  BY <1>t, Pieces DEF RioType
<1>2. /\ s # <<>> /\ Copied(e) = s /\ s[Len(s)].line = n + 1 /\ Flows(t, n + 1)
  BY <1>1, LineAtEnd DEF Last
<1>3. u = Cat(s, t)
  <2>1. Pipe(e) = Cat(Copied(e), Rest(e))
    BY <1>t, Pieces
  <2> QED
    BY <1>1, <1>2, <2>1, Zenon
<1>4. Within(t, u)
  BY <1>3, Elements
<1>5. ASSUME NEW m \in Nat, EndsWith(u, n, m) PROVE EndsWith(t, n + 1, m)
  <2>1. EndsWith(Cat(s, t), n, m)
    BY <1>3, <1>5, Zenon
  <2> QED
    BY <1>2, <2>1, EndsSuffix
<1> QED
  BY <1>1, <1>2, <1>4, <1>5

\* The client has read a response.  A program closes after a refusal and after
\* BYE; otherwise its rio_t is empty again.
LEMMA HearKeeps ==
  ASSUME ConversationInv, hear_response
  PROVE  ConversationInv'
<1>i. RioInv /\ TalkType /\ PipeInv /\ RequestInv /\ AskedInv /\ ProgramInv /\ AnswerArrives
  BY DEF ConversationInv
<1>t. RioType /\ SocketInv("server") /\ SocketInv("client")
  BY <1>i, TwoEnds DEF RioInv
<1>1. /\ call["client"] = "line"
      /\ UNCHANGED <<mode, request, sent, asked, served, loop_in_progress, killed>>
  BY DEF hear_response
<1>o. open["client"]
  BY <1>1, <1>t DEF SocketInv
<1>b. PICK b : b = Last(usrbuf["client"])
  OBVIOUS
<1>2. /\ heard' = IF b.newline THEN b.line ELSE heard
      /\ \/ close("client")
         \/ /\ b.newline /\ (mode = "program" => b.op = "OK" /\ request # "BYE")
            /\ call' = [call EXCEPT !["client"] = "none"]
            /\ UNCHANGED <<open, reset, out, net, rio_buf, usrbuf>>
  BY <1>b DEF hear_response
<1>3. Flows(Pipe("client"), heard) /\ heard \in Nat
  BY <1>i, <1>o DEF PipeInv, TalkType
<1>4. /\ b \in Byte /\ b.line = heard + 1
      /\ \E j \in 1..Len(Pipe("client")) : Pipe("client")[j] = b
  BY <1>1, <1>3, <1>b, <1>i, LineAtEnd, TwoEnds
<1>5. heard' \in Nat /\ heard <= heard' /\ heard' <= served /\ (b.newline => heard' = heard + 1)
  <2>1. b.line <= served
    BY <1>4, <1>i, <1>o DEF PipeInv
  <2> QED
    BY <1>2, <1>3, <1>4, <1>i, <2>1 DEF AskedInv, TalkType
<1>6. TalkType'
  BY <1>1, <1>5, <1>i DEF TalkType
<1>7. CASE close("client")
  <2>1. RioInv' /\ PipeInv' /\ RequestInv' /\ AskedInv'
    BY <1>1, <1>5, <1>7, <1>i, ClosePipes, TwoEnds
  <2>2. /\ open' = [open EXCEPT !["client"] = FALSE]
        /\ call'["client"] = "none" /\ rio_buf'["client"] = <<>>
    BY <1>7, <1>i, CloseEffect, TwoEnds
  <2>3. ~open'["client"] /\ open'["server"] = open["server"]
    BY <1>t, <2>2, TwoEnds DEF RioType
  <2>4. AnswerArrives'
    BY <2>2 DEF AnswerArrives
  <2>5. mode = "program" => sent <= heard' + 1
    <3>1. heard \in Nat /\ heard' \in Nat /\ sent \in Nat /\ heard <= heard'
      BY <1>5, <1>i DEF TalkType
    <3>2. \A x, y, z \in Nat : x <= y /\ z <= x + 1 => z <= y + 1
      OBVIOUS
    <3>3. sent <= heard + 1 => sent <= heard' + 1
      BY <3>1, <3>2
    <3> QED
      BY <1>i, <3>3 DEF ProgramInv
  <2>6. ProgramInv'
    BY <1>1, <1>i, <2>2, <2>3, <2>5 DEF ProgramInv
  <2> QED
    BY <1>6, <2>1, <2>4, <2>6 DEF ConversationInv
<1>8. CASE /\ b.newline /\ (mode = "program" => b.op = "OK" /\ request # "BYE")
           /\ call' = [call EXCEPT !["client"] = "none"]
           /\ UNCHANGED <<open, reset, out, net, rio_buf, usrbuf>>
  <2>1. call'["client"] = "none" /\ call'["server"] = call["server"]
    BY <1>8, <1>t, TwoEnds DEF RioType
  <2>2. RioInv'
    <3>1. RioType'
      BY <1>8, <1>t DEF RioType
    <3>2. SocketInv("server")' /\ SocketInv("client")'
      BY <1>1, <1>8, <1>t, <2>1, TwoEnds DEF SocketInv
    <3> QED
      BY <3>1, <3>2, TwoEnds DEF RioInv
  <2>3. Pipe("client")' = Rest("client")
    BY <1>8, <1>t, <2>1, <2>2, TurnFrom, TwoEnds DEF RioInv
  <2>4. Pipe("server")' = Pipe("server") /\ Arrived("server")' = Arrived("server")
    <3>1. Copied("server")' = Copied("server")
      BY <1>8, <2>1 DEF Copied
    <3> QED
      BY <1>8, <3>1, UntouchedEnd, TwoEnds
  <2>r. PICK r \in Seq(Byte) : r = Rest("client")
    BY <1>t, Pieces, TwoEnds
  <2>5. /\ Flows(r, heard') /\ Within(r, Pipe("client"))
        /\ \A m \in Nat : EndsWith(Pipe("client"), heard, m) => EndsWith(r, heard', m)
    BY <1>1, <1>3, <1>5, <1>8, <1>b, <1>i, <2>r, AfterLine, TwoEnds
  <2>6. \A i \in 1..Len(r) : r[i].line <= served
    BY <1>i, <1>o, <2>5 DEF PipeInv, Within
  <2>7. PipeInv'
    BY <1>1, <1>8, <1>i, <1>o, <2>3, <2>4, <2>5, <2>6, <2>r DEF PipeInv, RequestByte, TalkType
  <2>8. RequestInv'
    BY <1>8, <1>i, <2>1 DEF RequestInv
  <2>9. AskedInv'
    BY <1>1, <1>5, <1>8, <1>i, <2>1, <2>4 DEF AskedInv
  <2>10. ASSUME mode = "program" PROVE rio_buf'["client"] = <<>>
    <3>1. served <= heard'
      BY <1>5, <1>8, <1>i, <2>10 DEF ProgramInv, AskedInv, TalkType
    <3>2. \A i \in 1..Len(r) : r[i].line <= heard'
      <4>1. \A i \in 1..Len(r) : r[i].line \in Nat
        BY ByteOf
      <4> QED
        BY <1>5, <1>i, <2>6, <3>1, <4>1 DEF TalkType
    <3>3. r = <<>>
      BY <1>5, <2>5, <3>2, NothingLeft
    <3>4. rio_buf["client"] = <<>>
      BY <1>t, <2>r, <3>3, EmptyRest, TwoEnds
    <3> QED
      BY <1>8, <3>4
  <2>11. ASSUME mode = "program", ~loop_in_progress, "server" \notin killed PROVE FALSE
    <3>1. \A i \in 1..Len(Pipe("client")) : Pipe("client")[i].op = "REFUSED"
      BY <1>8, <1>i, <1>o, <2>11 DEF ProgramInv
    <3> QED
      BY <1>4, <1>8, <2>11, <3>1
  <2>12. ProgramInv' /\ AnswerArrives'
    BY <1>1, <1>5, <1>6, <1>8, <1>i, <2>1, <2>10, <2>11 DEF ProgramInv, AnswerArrives, TalkType
  <2> QED
    BY <1>6, <2>2, <2>7, <2>8, <2>9, <2>12 DEF ConversationInv
<1> QED
  BY <1>2, <1>7, <1>8

\* The thread carries out a request and begins to answer it.  A line without
\* its newline was left by a client that is gone, and counts for nothing.  The
\* answer follows the ones the client has still to read; when the loop ends
\* with it, it is the last the client waits for.
LEMMA ServeKeeps ==
  ASSUME ConversationInv, serve
  PROVE  ConversationInv'
<1>i. RioInv /\ TalkType /\ PipeInv /\ RequestInv /\ AskedInv /\ ProgramInv /\ AnswerArrives
  BY DEF ConversationInv
<1>t. RioType /\ SocketInv("server") /\ SocketInv("client")
  BY <1>i, TwoEnds DEF RioInv
<1>b. PICK b : b = Last(usrbuf["server"])
  OBVIOUS
<1>1. /\ call["server"] = "line" /\ served' = IF b.newline THEN b.line ELSE served
      /\ UNCHANGED <<mode, request, sent, asked, heard, killed>>
  BY <1>b DEF serve
<1>2. PICK len \in Lengths, op \in {"OK", "REFUSED"} :
          /\ rio_writen("server", Text(op, b.line, len))
          /\ loop_in_progress' \in BOOLEAN
          /\ ~loop_in_progress' => b.newline /\ (b.op = "BYE" \/ op = "REFUSED")
  BY <1>b DEF serve
<1>3. open["server"] /\ Flows(Pipe("server"), served) /\ served \in Nat /\ heard \in Nat
  BY <1>1, <1>i, <1>t DEF PipeInv, TalkType, SocketInv
<1>4. /\ b \in Byte /\ b.line = served + 1
      /\ \E j \in 1..Len(Pipe("server")) : Pipe("server")[j] = b
      /\ \E j \in 1..Len(Arrived("server")) : Arrived("server")[j] = b
  BY <1>1, <1>3, <1>b, <1>i, LineAtEnd, TwoEnds
<1>q. PICK q \in Nat : q = b.line /\ q = served + 1
  BY <1>3, <1>4
<1>5. RequestByte(b) /\ (b.newline => q <= asked)
  BY <1>3, <1>4, <1>i, <1>q DEF PipeInv, AskedInv, Completed
<1>x. PICK x \in Seq(Byte) : x = Text(op, q, len)
  BY <1>q, TextOf DEF Ops
<1>6. /\ Len(x) = len /\ x # <<>>
      /\ \A i \in 1..Len(x) : x[i].line = q /\ x[i].op = op
  <2>1. /\ len \in Nat \ {0} /\ Len(x) = len
        /\ \A i \in 1..len : x[i].line = q /\ x[i].op = op
    BY <1>x, TextOf DEF Ops
  <2>2. x = <<>> <=> Len(x) = 0
    BY ByteOf
  <2> QED
    BY <2>1, <2>2
<1>7. rio_writen("server", x)
  BY <1>2, <1>q, <1>x, Zenon
<1>8. /\ RioInv' /\ UNCHANGED <<open, reset, net, rio_buf, usrbuf>>
      /\ call'["server"] = "writen" /\ call'["client"] = call["client"]
      /\ out'["client"] = out["client"]
      /\ Pipe("client")' = Cat(Pipe("client"), x) /\ Arrived("client")' = Arrived("client")
      /\ Pipe("server")' = Rest("server")
      /\ Arrived("server") = Cat(Copied("server"), Arrived("server")')
  BY <1>6, <1>7, <1>i, SayEffect, TwoEnds
<1>9. served' \in Nat /\ served <= served' /\ served' <= asked /\ (b.newline => served' = q)
  BY <1>1, <1>3, <1>5, <1>i, <1>q DEF AskedInv, TalkType
<1>10. TalkType'
  BY <1>1, <1>2, <1>9, <1>i DEF TalkType
<1>11. ASSUME open["client"] PROVE b.newline
  BY <1>1, <1>11, <1>b, <1>i DEF RequestInv
<1>r. PICK r \in Seq(Byte) : r = Rest("server")
  BY <1>t, Pieces, TwoEnds
<1>12. /\ Flows(r, served') /\ \A i \in 1..Len(r) : RequestByte(r[i])
       /\ open["client"] => EndsWith(r, served', sent)
  <2>1. CASE b.newline
    <3>1. /\ Flows(r, served') /\ Within(r, Pipe("server"))
          /\ \A m \in Nat : EndsWith(Pipe("server"), served, m) => EndsWith(r, served', m)
      BY <1>1, <1>3, <1>9, <1>b, <1>i, <1>q, <1>r, <2>1, AfterLine, TwoEnds
    <3> QED
      BY <1>3, <1>i, <3>1 DEF PipeInv, Within, TalkType
  <2>2. CASE ~b.newline
    <3>1. /\ ~open["client"] /\ rio_buf["server"] = <<>> /\ net["server"] = <<>>
          /\ out["client"] = <<>>
      BY <1>1, <1>b, <1>i, <1>t, <2>2 DEF RequestInv, SocketInv
    <3>2. r = <<>>
      BY <1>r, <1>t, <3>1, EmptyRest, TwoEnds
    <3>3. Flows(<<>>, served')
      BY NothingFlows
    <3> QED
      BY <3>1, <3>2, <3>3
  <2> QED
    BY <2>1, <2>2
<1>u. PICK u \in Seq(Byte) : u = Pipe("client")
  BY <1>t, Pieces, TwoEnds
<1>v. PICK v \in Seq(Byte) : v = Pipe("client")' /\ v = Cat(u, x)
  BY <1>8, <1>u, PiecesNext, TwoEnds DEF RioInv
<1>13. ASSUME open["client"]
       PROVE  /\ Flows(v, heard) /\ EndsWith(v, heard, served') /\ v # <<>>
              /\ \A i \in 1..Len(v) : v[i].line <= served'
  <2>1. /\ Flows(u, heard) /\ EndsWith(u, heard, served)
        /\ \A i \in 1..Len(u) : u[i].line <= served
    BY <1>13, <1>3, <1>i, <1>u DEF PipeInv
  <2>2. served' = q /\ op \in Ops
    BY <1>9, <1>11, <1>13 DEF Ops
  <2>3. Flows(v, heard) /\ EndsWith(v, heard, q) /\ v # <<>>
    <3>1. /\ Flows(Cat(u, Text(op, q, len)), heard) /\ EndsWith(Cat(u, Text(op, q, len)), heard, q)
          /\ Cat(u, Text(op, q, len)) # <<>>
      BY <1>3, <1>q, <2>1, <2>2, FlowsAppend
    <3> QED
      BY <1>v, <1>x, <3>1, Zenon
  <2>4. \A i \in 1..Len(u) : u[i].line <= q
    <3>1. \A i \in 1..Len(u) : u[i].line \in Nat
      BY ByteOf
    <3> QED
      BY <1>3, <1>q, <2>1, <3>1
  <2>5. \A i \in 1..Len(x) : x[i].line <= q
    BY <1>6
  <2>6. Mixed(v, u, x)
    BY <1>v, Elements
  <2> QED
    BY <2>2, <2>3, <2>4, <2>5, <2>6 DEF Mixed
<1>14. PipeInv'
  BY <1>1, <1>8, <1>12, <1>13, <1>r, <1>v DEF PipeInv, RequestByte
<1>15. RequestInv'
  BY <1>8 DEF RequestInv
<1>16. AskedInv'
  <2>1. Completed(Arrived("server")', asked)
    <3>1. PICK s, a, c \in Seq(Byte) :
              s = Copied("server") /\ a = Arrived("server")' /\ c = Arrived("server")
      BY <1>8, <1>t, Pieces, PiecesNext, TwoEnds DEF RioInv
    <3>2. c = Cat(s, a) /\ Completed(c, asked)
      BY <1>8, <1>i, <3>1 DEF AskedInv
    <3>3. Completed(a, asked)
      BY <3>2, CompletedLines
    <3> QED
      BY <3>1, <3>3
  <2> QED
    BY <1>1, <1>3, <1>8, <1>9, <1>i, <2>1 DEF AskedInv
<1>17. ASSUME mode = "program", open["client"], ~loop_in_progress'
       PROVE  \/ request = "BYE"
              \/ \A i \in 1..Len(v) : v[i].op = "REFUSED"
  <2>1. b.newline /\ (b.op = "BYE" \/ op = "REFUSED")
    BY <1>2, <1>17
  <2>2. q = sent /\ heard = served
    BY <1>17, <1>3, <1>5, <1>i, <1>q, <2>1 DEF ProgramInv, AskedInv, TalkType
  <2>3. CASE b.op = "BYE"
    BY <1>5, <1>q, <2>2, <2>3 DEF RequestByte
  <2>4. CASE op = "REFUSED"
    <3>1. Flows(u, heard) /\ \A i \in 1..Len(u) : u[i].line <= heard
      BY <1>17, <1>i, <1>u, <2>2 DEF PipeInv
    <3>2. u = <<>> /\ Cat(<<>>, x) = x
      BY <1>3, <3>1, NothingLeft, Joining
    <3>3. v = x
      BY <1>v, <3>2, Zenon
    <3> QED
      BY <1>6, <2>4, <3>3
  <2> QED
    BY <2>1, <2>3, <2>4
<1>18. ProgramInv' /\ AnswerArrives'
  <2>1. ~reset["client"]
    BY <1>3, <1>t, TwoEnds DEF SocketInv
  <2>2. open["client"] => heard < served'
    BY <1>11, <1>3, <1>9, <1>i, <1>q DEF AskedInv
  <2> QED
    BY <1>1, <1>3, <1>8, <1>13, <1>17, <1>i, <1>v, <2>1, <2>2 DEF ProgramInv, AnswerArrives
<1> QED
  BY <1>8, <1>10, <1>14, <1>15, <1>16, <1>18 DEF ConversationInv

\* A step that changes nothing but the wait for a mutex.
LEMMA NothingKeeps ==
  ASSUME ConversationInv,
         UNCHANGED <<rio, mode, request, counters, loop_in_progress, killed>>
  PROVE  ConversationInv'
<1>i. RioInv /\ TalkType /\ PipeInv /\ RequestInv /\ AskedInv /\ ProgramInv /\ AnswerArrives
  BY DEF ConversationInv
<1>1. /\ UNCHANGED <<open, reset, out, net, rio_buf, usrbuf, call>>
      /\ UNCHANGED <<mode, request, sent, asked, served, heard, loop_in_progress, killed>>
  BY DEF rio, counters
<1>2. RioInv'
  BY <1>1, <1>i DEF RioInv, RioType, SocketInv
<1>3. \A d \in Ends : Pipe(d)' = Pipe(d) /\ Arrived(d)' = Arrived(d)
  <2>1. \A d \in Ends : Copied(d)' = Copied(d)
    BY <1>1 DEF Copied
  <2> QED
    BY <1>1, <2>1, UntouchedEnd
<1>4. PipeInv' /\ AskedInv'
  BY <1>1, <1>3, <1>i, SamePipes DEF counters
<1>5. RequestInv' /\ ProgramInv' /\ AnswerArrives' /\ TalkType'
  BY <1>1, <1>3, <1>i, TwoEnds DEF RequestInv, ProgramInv, AnswerArrives, TalkType
<1> QED
  BY <1>2, <1>4, <1>5 DEF ConversationInv

-----------------------------------------------------------------------------
(* The invariant.                                                            *)

\* Nothing has been said.
LEMMA ConversationStarts == ConversationInit => ConversationInv
<1> SUFFICES ASSUME ConversationInit PROVE ConversationInv
  OBVIOUS
<1>1. /\ open = [e \in Ends |-> TRUE] /\ reset = [e \in Ends |-> FALSE]
      /\ out = [e \in Ends |-> <<>>] /\ net = [e \in Ends |-> <<>>]
      /\ rio_buf = [e \in Ends |-> <<>>] /\ usrbuf = [e \in Ends |-> <<>>]
      /\ call = [e \in Ends |-> "none"]
  BY DEF ConversationInit, RioInit
<1>2. /\ mode \in {"program", "ahead"} /\ request = "none" /\ sent = 0 /\ asked = 0
      /\ served = 0 /\ heard = 0 /\ loop_in_progress = TRUE /\ killed = {}
  BY DEF ConversationInit
<1>3. RioType
  <2>1. <<>> \in Seq(Byte)
    BY EmptySeq
  <2> QED
    BY <1>1, <2>1 DEF RioType
<1>4. RioInv
  BY <1>1, <1>3, PeerOf DEF RioInv, SocketInv
<1>5. \A e \in Ends : Arrived(e) = <<>> /\ Pipe(e) = <<>>
  <2>1. SUFFICES ASSUME NEW e \in Ends PROVE Arrived(e) = <<>> /\ Pipe(e) = <<>>
    OBVIOUS
  <2>2. Copied(e) = <<>> /\ rio_buf[e] = <<>> /\ net[e] = <<>> /\ out[Peer(e)] = <<>>
    BY <1>1, PeerOf DEF Copied
  <2> QED
    BY <1>3, <2>2, EmptyPipe
<1>6. PipeInv
  <2>1. Flows(<<>>, 0) /\ EndsWith(<<>>, 0, 0)
    BY NothingFlows DEF EndsWith
  <2> QED
    BY <1>2, <1>5, <2>1, TwoEnds DEF PipeInv
<1>7. AskedInv
  BY <1>1, <1>2, <1>5, TwoEnds DEF AskedInv, LineEnd, Completed
<1>8. TalkType /\ RequestInv /\ ProgramInv /\ AnswerArrives
  BY <1>1, <1>2, TwoEnds DEF TalkType, RequestInv, ProgramInv, AnswerArrives
<1> QED
  BY <1>4, <1>6, <1>7, <1>8 DEF ConversationInv

\* Every step of the client, the thread and the kernel keeps it.
LEMMA ConversationContinues ==
  ConversationInv /\ [ConversationNext]_<<rio, talk>> => ConversationInv'
<1> SUFFICES ASSUME ConversationInv, [ConversationNext]_<<rio, talk>> PROVE ConversationInv'
  OBVIOUS
<1>1. CASE ClientStep
  BY <1>1, AwaitKeeps, CloseKeeps, HearKeeps, LostKeeps, ReadKeeps, SendKeeps, TwoEnds, WriteKeeps
     DEF ClientStep
<1>2. CASE ServerStep
  BY <1>2, AwaitKeeps, CloseKeeps, EndKeeps, LostKeeps, ReadKeeps, ServeKeeps, TwoEnds, WriteKeeps
     DEF ServerStep
<1>3. CASE \E e \in Ends : Kill(e)
  BY <1>3, CloseKeeps
<1>4. CASE wait_for_lock \/ get_lock \/ Over \/ UNCHANGED <<rio, talk>>
  BY <1>4, NothingKeeps DEF wait_for_lock, get_lock, Over, talk
<1> QED
  BY <1>1, <1>2, <1>3, <1>4 DEF ConversationNext

\* The inductive invariant holds throughout a conversation.
LEMMA ConversationInvariant == ConversationSpec => []ConversationInv
  BY ConversationStarts, ConversationContinues, PTL DEF ConversationSpec

-----------------------------------------------------------------------------
(* What a connection promises.                                               *)

\* Short reads, short writes and buffers at their limit neither lose, repeat
\* nor reorder a byte (rio_writen, rio_read, rio_readlineb), whatever the
\* sizes of RIO_BUFSIZE and of the kernel's buffers.
THEOREM BytesInOrder == ConversationSpec => []InOrder
<1>1. ConversationInv => InOrder
  BY TwoEnds DEF ConversationInv, PipeInv, Flows, InOrder
<1> QED
  BY <1>1, ConversationInvariant, PTL

\* The fresh rio_t a program makes for every response never takes the place of
\* one that had read ahead (login_operation and its like).
THEOREM NoBytesDropped == ConversationSpec => []NothingDropped
<1>1. ConversationInv => NothingDropped
  BY DEF ConversationInv, ProgramInv, NothingDropped
<1> QED
  BY <1>1, ConversationInvariant, PTL

\* A program that waits for a response finds the end of its input only when the
\* server's process has died: the thread writes every answer before it closes,
\* and closes with nothing unread (chat_with_client, write_ok).
THEOREM AnswersArrive == ConversationSpec => []AnswerArrives
<1>1. ConversationInv => AnswerArrives
  BY DEF ConversationInv
<1> QED
  BY <1>1, ConversationInvariant, PTL

-----------------------------------------------------------------------------
(* A connection of bytes is a connection of lines.                           *)

\* A step of the conversation is a step of the exchange of lines, or none.
LEMMA StepOfExchange ==
  ASSUME ConversationInv, ConversationInv', [ConversationNext]_<<rio, talk>>
  PROVE  [Lines!Ask \/ Lines!Serve \/ Lines!Hear]_<<asked, served, heard>>
<1>i. RioInv /\ TalkType /\ PipeInv /\ RequestInv /\ AskedInv /\ ProgramInv
  BY DEF ConversationInv
<1>n. /\ heard' <= served' /\ served' <= asked'
      /\ heard \in Nat /\ served \in Nat /\ asked \in Nat
  BY <1>i DEF ConversationInv, AskedInv, TalkType
<1>1. CASE hear_response
  <2>1. /\ call["client"] = "line" /\ UNCHANGED <<asked, served>>
        /\ heard' \in {heard, Last(usrbuf["client"]).line}
    BY <1>1 DEF hear_response
  <2>2. open["client"]
    BY <1>i, <2>1, TwoEnds DEF RioInv, SocketInv
  <2>3. Last(usrbuf["client"]).line = heard + 1
    BY <1>i, <1>n, <2>1, <2>2, LineAtEnd, TwoEnds DEF PipeInv
  <2> QED
    BY <1>n, <2>1, <2>3 DEF Lines!Hear
<1>2. CASE serve
  <2>1. /\ call["server"] = "line" /\ UNCHANGED <<asked, heard>>
        /\ served' \in {served, Last(usrbuf["server"]).line}
    BY <1>2 DEF serve
  <2>2. open["server"]
    BY <1>i, <2>1, TwoEnds DEF RioInv, SocketInv
  <2>3. Last(usrbuf["server"]).line = served + 1
    BY <1>i, <1>n, <2>1, <2>2, LineAtEnd, TwoEnds DEF PipeInv
  <2> QED
    BY <1>n, <2>1, <2>3 DEF Lines!Serve
<1>3. CASE \E e \in Ends : Write(e)
  <2>1. PICK e \in Ends : Write(e)
    BY <1>3
  <2>2. /\ UNCHANGED <<served, heard, sent>> /\ call[e] = "writen" /\ open[e] /\ open[Peer(e)]
        /\ asked' = IF e = "client" /\ out'[e] = <<>> THEN sent ELSE asked
    BY <2>1 DEF Write, write
  <2>3. e = "client" => sent = asked + 1
    BY <1>i, <2>2, TwoEnds DEF AskedInv
  <2> QED
    BY <2>2, <2>3 DEF Lines!Ask
<1>4. CASE \/ send_request \/ await_response \/ give_up
           \/ await_request \/ wait_for_lock \/ get_lock \/ end_of_input \/ close_connection
           \/ (\E e \in Ends : WriteLost(e) \/ Read(e) \/ Kill(e)) \/ Over \/ UNCHANGED <<rio, talk>>
  BY <1>4 DEF send_request, await_response, give_up, await_request, wait_for_lock, get_lock,
              end_of_input, close_connection, WriteLost, Read, Kill, Over, talk, counters
<1> QED
  BY <1>1, <1>2, <1>3, <1>4, TwoEnds DEF ConversationNext, ClientStep, ServerStep

\* Requests are carried out only when they have come to the newline, in order
\* and once, and responses are heard in order (decode's check for the newline,
\* the rio buffers): whatever is sent ahead, cut short or split on the way.
THEOREM ExchangeImplemented == ConversationSpec => ImplementsExchange
<1>1. ConversationInit => Lines!Init
  BY DEF ConversationInit, Lines!Init
<1>2. ConversationInv /\ ConversationInv' /\ [ConversationNext]_<<rio, talk>>
         => [Lines!Ask \/ Lines!Serve \/ Lines!Hear]_<<asked, served, heard>>
  BY StepOfExchange
<1> QED
  BY <1>1, <1>2, ConversationInvariant, PTL DEF ConversationSpec, ImplementsExchange, Lines!Spec
=============================================================================
