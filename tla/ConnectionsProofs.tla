-------------------------- MODULE ConnectionsProofs --------------------------
(***************************************************************************)
(* Proofs about Connections, for any clients, addresses and limits.        *)
(***************************************************************************)
EXTENDS Connections, FiniteSetTheorems, WellFoundedInduction, TLAPS

-----------------------------------------------------------------------------
(* Numbers, and sequences of frames and of clients.                        *)

LEMMA LowestFacts ==
    ASSUME NEW ns \in SUBSET Nat, ns # {}
    PROVE  Lowest(ns) \in ns
<1>1. IsWellFoundedOn(OpToRel(<, Nat), Nat)
  BY NatLessThanWellFounded
<1>2. PICK n \in ns : \A m \in ns : ~(<<m, n>> \in OpToRel(<, Nat))
  BY <1>1, WFMin
<1>3. \A m \in ns : <<m, n>> \in Nat \X Nat
  OBVIOUS
<1>4. \A m \in ns : ~(m < n)
  BY <1>2, <1>3 DEF OpToRel
<1>5. \A m \in ns : n <= m
  BY <1>4
<1> QED
  BY <1>5 DEF Lowest

LEMMA QueueFacts ==
    ASSUME NEW q \in Seq(Peers), q # <<>>
    PROVE  /\ Head(q) \in Peers /\ Head(q) = q[1] /\ Tail(q) \in Seq(Peers)
           /\ Len(q) \in Nat \ {0} /\ DOMAIN q = 1 .. Len(q)
           /\ DOMAIN Tail(q) = 1 .. Len(q) - 1
           /\ \A i \in DOMAIN Tail(q) : Tail(q)[i] = q[i + 1]
  OBVIOUS

LEMMA BehindFacts ==
    ASSUME NEW q \in Seq(Peers), NEW p \in Peers
    PROVE  /\ Append(q, p) \in Seq(Peers) /\ Len(q) \in Nat /\ DOMAIN q = 1 .. Len(q)
           /\ DOMAIN Append(q, p) = 1 .. Len(q) + 1 /\ Append(q, p) # <<>>
           /\ Append(q, p)[Len(q) + 1] = p
           /\ \A i \in DOMAIN q : Append(q, p)[i] = q[i]
  OBVIOUS

LEMMA FrameFacts ==
    ASSUME NEW s \in Seq(Items)
    PROVE  /\ Len(s) \in Nat /\ DOMAIN s = 1 .. Len(s)
           /\ \A i \in DOMAIN s : s[i] \in Items
           /\ s = <<>> <=> Len(s) = 0
  OBVIOUS

LEMMA ReceiveFacts ==
    ASSUME NEW s \in Seq(Items), NEW f \in Items
    PROVE  /\ Append(s, f) \in Seq(Items) /\ Len(Append(s, f)) = Len(s) + 1
           /\ DOMAIN Append(s, f) = 1 .. Len(s) + 1
           /\ Append(s, f)[Len(s) + 1] = f
           /\ \A i \in DOMAIN s : Append(s, f)[i] = s[i]
  OBVIOUS

LEMMA TakeFacts ==
    ASSUME NEW s \in Seq(Items), s # <<>>
    PROVE  /\ Tail(s) \in Seq(Items) /\ Len(Tail(s)) = Len(s) - 1
           /\ Head(s) = s[1] /\ 1 \in DOMAIN s
           /\ \A i \in DOMAIN Tail(s) : i + 1 \in DOMAIN s /\ Tail(s)[i] = s[i + 1]
  OBVIOUS

(* What is left when a reader took too much: frames, and pieces of one.    *)
Scraps == {"scrap", "badscrap", "part"}

LEMMA PiecesFacts ==
    ASSUME NEW s \in Pieces
    PROVE  s \in Seq(Items) /\ \A i \in DOMAIN s : s[i] \in Scraps
<1>1. PICK n \in 0 .. MaxScraps, last \in Scraps : s = Piece(n, last)
  BY DEF Pieces, Scraps
<1>2. Scraps \subseteq Items /\ n \in Nat
  BY ConnectionsAssumption DEF Items, Scraps
<1>3. PICK t : t = [i \in 1 .. n |-> "scrap"]
  OBVIOUS
<1>4. t \in Seq(Scraps) /\ <<last>> \in Seq(Scraps)
  BY <1>2, <1>3 DEF Scraps
<1>5. t \o <<last>> \in Seq(Scraps)
  BY <1>4
<1>6. s \in Seq(Scraps)
  BY <1>1, <1>3, <1>5 DEF Piece
<1> QED
  BY <1>2, <1>6

LEMMA BeginsFacts ==
    ASSUME NEW s \in Seq(Items), NEW t \in Seq(Items), \A i \in DOMAIN s : s[i] \in Scraps
    PROVE  /\ s \o t \in Seq(Items)
           /\ \A i \in DOMAIN (s \o t) :
                 (s \o t)[i] \in Scraps \/ \E j \in DOMAIN t : (s \o t)[i] = t[j]
<1>1. s \o t \in Seq(Items)
  OBVIOUS
<1>2. ASSUME NEW i \in DOMAIN (s \o t)
      PROVE  (s \o t)[i] \in Scraps \/ \E j \in DOMAIN t : (s \o t)[i] = t[j]
  <2>1. CASE i <= Len(s)
    BY <2>1
  <2>2. CASE ~(i <= Len(s))
    <3>1. i - Len(s) \in DOMAIN t /\ (s \o t)[i] = t[i - Len(s)]
      BY <2>2
    <3> QED
      BY <3>1
  <2> QED
    BY <2>1, <2>2
<1> QED
  BY <1>1, <1>2

LEMMA EndFacts ==
    ASSUME NEW q \in Seq(Items), NEW n \in 0 .. Len(q), NEW t, t = SubSeq(q, n + 1, Len(q))
    PROVE  t \in Seq(Items) /\ \A i \in DOMAIN t : \E j \in DOMAIN q : t[i] = q[j]
<1>1. Len(q) \in Nat /\ n \in Nat
  OBVIOUS
<1>2. t \in Seq(Items) /\ Len(t) = Len(q) - n
  BY <1>1
<1>3. \A i \in DOMAIN t : n + i \in DOMAIN q /\ t[i] = q[n + i]
  BY <1>1, <1>2
<1> QED
  BY <1>2, <1>3

LEMMA LeftFacts ==
    ASSUME NEW q \in Seq(Items), NEW r \in Left(q)
    PROVE  /\ r \in Seq(Items)
           /\ \A i \in DOMAIN r : r[i] \in Scraps \/ \E j \in DOMAIN q : r[i] = q[j]
           /\ q = <<>> => r = <<>>
<1>1. CASE \E n \in 0 .. Len(q) : r = From(q, n)
  <2>1. PICK n \in 0 .. Len(q) : r = From(q, n)
    BY <1>1
  <2>2. r \in Seq(Items) /\ \A i \in DOMAIN r : \E j \in DOMAIN q : r[i] = q[j]
    BY <2>1, EndFacts DEF From
  <2>3. ASSUME q = <<>>
        PROVE  r = <<>>
    <3>1. DOMAIN q = {}
      BY <2>3
    <3>2. DOMAIN r = {} \/ 1 \in DOMAIN r
      BY <2>2
    <3> QED
      BY <2>2, <3>1, <3>2
  <2> QED
    BY <2>2, <2>3
<1>2. CASE \E s \in Pieces, n \in {m \in 1 .. Len(q) : q[m] \in Frames} :
              r = s \o From(q, n)
  <2>1. PICK s \in Pieces, n \in 1 .. Len(q) : r = s \o From(q, n)
    BY <1>2
  <2>2. PICK t : t = From(q, n)
    OBVIOUS
  <2>3. n \in 0 .. Len(q) /\ q # <<>>
    BY <2>1
  <2>4. t \in Seq(Items) /\ \A i \in DOMAIN t : \E j \in DOMAIN q : t[i] = q[j]
    BY <2>2, <2>3, EndFacts DEF From
  <2>5. s \in Seq(Items) /\ \A i \in DOMAIN s : s[i] \in Scraps
    BY PiecesFacts
  <2>6. /\ s \o t \in Seq(Items)
        /\ \A i \in DOMAIN (s \o t) :
              (s \o t)[i] \in Scraps \/ \E j \in DOMAIN t : (s \o t)[i] = t[j]
    BY <2>4, <2>5, BeginsFacts
  <2>7. r = s \o t
    BY <2>1, <2>2
  <2> QED
    BY <2>3, <2>4, <2>6, <2>7
<1>3. \/ \E n \in 0 .. Len(q) : r = From(q, n)
      \/ \E s \in Pieces, n \in {m \in 1 .. Len(q) : q[m] \in Frames} :
             r = s \o From(q, n)
  BY DEF Left
<1> QED
  BY <1>1, <1>2, <1>3

-----------------------------------------------------------------------------
(* What the clients know.                                                  *)

LEMMA PeerFacts ==
    ASSUME NEW R, R = PeerType, NEW r \in R
    PROVE  /\ [r EXCEPT !.pc = "open"] \in R /\ [r EXCEPT !.pc = "closed"] \in R
           /\ \A n \in Nat : [r EXCEPT !.got = n] \in R
           /\ \A w \in Frames \cup {"nothing"}, b \in BOOLEAN :
                 [r EXCEPT !.sent = r.sent + 1, !.said = w, !.bad = b] \in R
<1>1. /\ [r EXCEPT !.pc = "open"] \in R /\ [r EXCEPT !.pc = "closed"] \in R
      /\ \A n \in Nat : [r EXCEPT !.got = n] \in R
  BY DEF PeerType
<1>2. ASSUME NEW w \in Frames \cup {"nothing"}, NEW b \in BOOLEAN
      PROVE  [r EXCEPT !.sent = r.sent + 1, !.said = w, !.bad = b] \in R
  <2>0. [r EXCEPT !.sent = r.sent + 1] \in R
    BY DEF PeerType
  <2>1. PICK s \in R : s = [r EXCEPT !.sent = r.sent + 1]
    BY <2>0
  <2>2. PICK t \in R : t = [s EXCEPT !.said = w]
    BY DEF PeerType
  <2>3. [t EXCEPT !.bad = b] \in R
    BY DEF PeerType
  <2>4. [r EXCEPT !.sent = r.sent + 1, !.said = w, !.bad = b] = [t EXCEPT !.bad = b]
    BY <2>1, <2>2 DEF PeerType
  <2> QED
    BY <2>3, <2>4
<1> QED
  BY <1>1, <1>2

(* Who changes what the clients know.                                      *)
LEMMA PeerSteps ==
    ASSUME [Next]_vars
    PROVE  \/ UNCHANGED peer
           \/ \E p \in Peers : Connect(p) \/ Hangup(p) \/ OnTraffic(p)
           \/ \E p \in Peers, f \in Frames : Send(p, f)
           \/ Authenticate
  BY DEF Next, vars, kernel, books, Accepting, AcceptOne, AcceptFails,
         Reject, Setup, AcceptEnds, Reading, ReadOn, ReadSync, ReadEnds,
         Leaving, RegisterThread, Unregister, CloseConn, CloseFile, CloseAgain, Finish, Collect,
         Signal, Exit

LEMMA AnswerFacts ==
    ASSUME peer \in [Peers -> PeerType], NEW s, peer' = Answer(s)
    PROVE  /\ peer' \in [Peers -> PeerType]
           /\ \A q \in Peers \ {s} : peer'[q] = peer[q]
           /\ \A q \in Peers : /\ peer'[q].pc = peer[q].pc /\ peer'[q].sent = peer[q].sent
                               /\ peer'[q].said = peer[q].said
           /\ s \in Peers \ Pipelining => peer'[s].got = peer[s].got + 1
<1>1. PICK R : R = PeerType
  OBVIOUS
<1>2. peer \in [Peers -> R]
  BY <1>1
<1>3. CASE s \in Peers
  <2>1. PICK r \in R : r = peer[s]
    BY <1>2, <1>3
  <2>2. PICK n \in Nat : n = IF s \in Pipelining THEN 1 ELSE r.got + 1
    BY <1>1, <2>1 DEF PeerType
  <2>3. peer' = [peer EXCEPT ![s] = [r EXCEPT !.got = n]]
    BY <2>1, <2>2 DEF Answer
  <2>4. [r EXCEPT !.got = n] \in R
    BY <1>1, <2>1, PeerFacts
  <2>5. peer' \in [Peers -> R] /\ peer'[s] = [r EXCEPT !.got = n]
        /\ \A q \in Peers \ {s} : peer'[q] = peer[q]
    BY <1>2, <1>3, <2>3, <2>4
  <2>6. /\ peer'[s].pc = peer[s].pc /\ peer'[s].sent = peer[s].sent
        /\ peer'[s].said = peer[s].said /\ peer'[s].got = n
    BY <1>1, <2>1, <2>5 DEF PeerType
  <2> QED
    BY <1>1, <1>3, <2>1, <2>2, <2>5, <2>6
<1>4. CASE s \notin Peers
  <2>1. peer' = peer
    BY <1>2, <1>4 DEF Answer
  <2> QED
    BY <1>2, <1>4, <2>1
<1> QED
  BY <1>3, <1>4

(* A client connects, hangs up, or sends.                                  *)
LEMMA PlugFacts ==
    ASSUME peer \in [Peers -> PeerType], NEW p \in Peers, NEW w \in {"open", "closed"},
           peer' = [peer EXCEPT ![p].pc = w]
    PROVE  /\ peer' \in [Peers -> PeerType]
           /\ \A q \in Peers \ {p} : peer'[q] = peer[q]
           /\ peer'[p].pc = w
           /\ \A q \in Peers : /\ peer'[q].got = peer[q].got /\ peer'[q].sent = peer[q].sent
                               /\ peer'[q].said = peer[q].said
<1>1. PICK R : R = PeerType
  OBVIOUS
<1>2. peer \in [Peers -> R]
  BY <1>1
<1>3. PICK r \in R : r = peer[p]
  BY <1>2
<1>4. [r EXCEPT !.pc = w] \in R
  BY <1>1, <1>3 DEF PeerType
<1>5. peer' = [peer EXCEPT ![p] = [r EXCEPT !.pc = w]]
  BY <1>3
<1>6. peer' \in [Peers -> R] /\ peer'[p] = [r EXCEPT !.pc = w]
      /\ \A q \in Peers \ {p} : peer'[q] = peer[q]
  BY <1>2, <1>4, <1>5
<1>7. /\ peer'[p].pc = w /\ peer'[p].sent = peer[p].sent
      /\ peer'[p].said = peer[p].said /\ peer'[p].got = peer[p].got
  BY <1>1, <1>3, <1>6 DEF PeerType
<1> QED
  BY <1>1, <1>6, <1>7

LEMMA SendFacts ==
    ASSUME peer \in [Peers -> PeerType], NEW p \in Peers, NEW f \in Frames, Send(p, f)
    PROVE  /\ peer' \in [Peers -> PeerType]
           /\ \A q \in Peers \ {p} : peer'[q] = peer[q]
           /\ peer'[p].pc = peer[p].pc /\ peer'[p].got = peer[p].got
           /\ peer'[p].sent = peer[p].sent + 1
           /\ peer'[p].said = IF peer[p].sent = 0 THEN f ELSE peer[p].said
<1>1. PICK R : R = PeerType
  OBVIOUS
<1>2. peer \in [Peers -> R]
  BY <1>1
<1>3. PICK r \in R : r = peer[p]
  BY <1>2
<1>4. PICK w \in Frames \cup {"nothing"} : w = IF r.sent = 0 THEN f ELSE r.said
  BY <1>1, <1>3 DEF PeerType
<1>b. PICK b \in BOOLEAN : b = (r.bad \/ f = "badlength")
  OBVIOUS
<1>5. PICK s \in R : s = [r EXCEPT !.sent = r.sent + 1, !.said = w, !.bad = b]
  BY <1>1, <1>3, PeerFacts
<1>6. peer' = [peer EXCEPT ![p] = s]
  BY <1>3, <1>4, <1>b, <1>5 DEF Send
<1>7. peer' \in [Peers -> R] /\ peer'[p] = s /\ \A q \in Peers \ {p} : peer'[q] = peer[q]
  BY <1>2, <1>6
<1>8. s.pc = r.pc /\ s.sent = r.sent + 1 /\ s.got = r.got
      /\ s.said = IF r.sent = 0 THEN f ELSE r.said
  BY <1>1, <1>3, <1>4, <1>5 DEF PeerType
<1> QED
  BY <1>1, <1>3, <1>7, <1>8

LEMMA PeersTyped ==
    ASSUME TypesOK, [Next]_vars
    PROVE  peer' \in [Peers -> PeerType]
<1>1. peer \in [Peers -> PeerType]
  BY DEF TypesOK
<1>2. ASSUME NEW p \in Peers, Connect(p) \/ Hangup(p)
      PROVE  peer' \in [Peers -> PeerType]
  BY <1>1, <1>2, PlugFacts DEF Connect, Hangup
<1>3. ASSUME NEW p \in Peers, OnTraffic(p)
      PROVE  peer' \in [Peers -> PeerType]
  BY <1>1, <1>3, AnswerFacts DEF OnTraffic
<1>4. CASE Authenticate
  BY <1>1, <1>4, AnswerFacts DEF Authenticate
<1> QED
  BY <1>1, <1>2, <1>3, <1>4, SendFacts, PeerSteps

-----------------------------------------------------------------------------
(* How the io-threads move.                                                *)

Moves(p, w) ==
    /\ thr'[p].pc = w /\ thr'[p].fd = thr[p].fd /\ thr'[p].dup = thr[p].dup
    /\ \A q \in Peers \ {p} : thr'[q] = thr[q]

Starts(p, w, dup) ==
    /\ thr'[p].pc = w /\ thr'[p].fd = acc.fd /\ thr'[p].dup = dup
    /\ \A q \in Peers \ {p} : thr'[q] = thr[q]

LEMMA ThreadFacts ==
    ASSUME NEW R, R = ThreadType, NEW r \in R
    PROVE  /\ \A w \in ThreadPc : /\ [r EXCEPT !.pc = w] \in R
                                  /\ [r EXCEPT !.pc = w].fd = r.fd
                                  /\ [r EXCEPT !.pc = w].pc = w
                                  /\ [r EXCEPT !.pc = w].dup = r.dup
                                  /\ [r EXCEPT !.pc = w].from = r.from
                                  /\ [r EXCEPT !.pc = w].err = r.err
           /\ \A n \in Numbers : /\ [r EXCEPT !.fd = n] \in R
                                 /\ [r EXCEPT !.fd = n].fd = n
                                 /\ [r EXCEPT !.fd = n].pc = r.pc
                                 /\ [r EXCEPT !.fd = n].dup = r.dup
           /\ \A s \in Peers : /\ [r EXCEPT !.from = s] \in R
                               /\ [r EXCEPT !.from = s].fd = r.fd
                               /\ [r EXCEPT !.from = s].pc = r.pc
                               /\ [r EXCEPT !.from = s].dup = r.dup
                               /\ [r EXCEPT !.from = s].err = r.err
                               /\ [r EXCEPT !.from = s].from = s
           /\ \A b \in BOOLEAN : /\ [r EXCEPT !.err = b] \in R
                                 /\ [r EXCEPT !.err = b].fd = r.fd
                                 /\ [r EXCEPT !.err = b].pc = r.pc
                                 /\ [r EXCEPT !.err = b].dup = r.dup
                                 /\ [r EXCEPT !.err = b].from = r.from
                                 /\ [r EXCEPT !.err = b].err = b
  BY DEF ThreadType

LEMMA GoToFacts ==
    ASSUME thr \in [Peers -> ThreadType], NEW p \in Peers, NEW w \in ThreadPc, GoTo(p, w)
    PROVE  /\ thr' \in [Peers -> ThreadType] /\ Moves(p, w)
           /\ thr'[p].from = thr[p].from /\ thr'[p].err = thr[p].err
<1>1. PICK R : R = ThreadType
  OBVIOUS
<1>2. thr \in [Peers -> R]
  BY <1>1
<1>3. PICK r \in R : r = thr[p]
  BY <1>2
<1>4. PICK s \in R : s = [r EXCEPT !.pc = w]
  BY <1>1, <1>3, ThreadFacts
<1>5. thr' = [thr EXCEPT ![p] = s]
  BY <1>3, <1>4 DEF GoTo
<1>6. thr' \in [Peers -> R] /\ thr'[p] = s /\ \A q \in Peers \ {p} : thr'[q] = thr[q]
  BY <1>2, <1>5
<1>7. s.pc = w /\ s.fd = r.fd /\ s.dup = r.dup /\ s.from = r.from /\ s.err = r.err
  BY <1>1, <1>3, <1>4, ThreadFacts
<1> QED
  BY <1>1, <1>3, <1>6, <1>7 DEF Moves

LEMMA ReadFacts ==
    ASSUME thr \in [Peers -> ThreadType], NEW p \in Peers, NEW s \in Peers,
           thr' = [thr EXCEPT ![p].pc = "serve", ![p].from = s]
    PROVE  /\ thr' \in [Peers -> ThreadType] /\ Moves(p, "serve")
           /\ thr'[p].from = s /\ thr'[p].err = thr[p].err
<1>0. "serve" \in ThreadPc
  BY DEF ThreadPc
<1>1. PICK R : R = ThreadType
  OBVIOUS
<1>2. thr \in [Peers -> R]
  BY <1>1
<1>3. PICK r \in R : r = thr[p]
  BY <1>2
<1>4. PICK t \in R : t = [r EXCEPT !.pc = "serve"]
  BY <1>0, <1>1, <1>3, ThreadFacts
<1>5. PICK u \in R : u = [t EXCEPT !.from = s]
  BY <1>1, <1>4, ThreadFacts
<1>6. thr' = [thr EXCEPT ![p] = u]
  BY <1>2, <1>3, <1>4, <1>5
<1>7. thr' \in [Peers -> R] /\ thr'[p] = u /\ \A q \in Peers \ {p} : thr'[q] = thr[q]
  BY <1>2, <1>6
<1>8. t.pc = "serve" /\ t.fd = r.fd /\ t.dup = r.dup /\ t.err = r.err
  BY <1>0, <1>1, <1>3, <1>4, ThreadFacts
<1>9. u.pc = t.pc /\ u.fd = t.fd /\ u.dup = t.dup /\ u.err = t.err /\ u.from = s
  BY <1>1, <1>4, <1>5, ThreadFacts
<1> QED
  BY <1>1, <1>3, <1>7, <1>8, <1>9 DEF Moves

LEMMA CloseConnFacts ==
    ASSUME thr \in [Peers -> ThreadType], NEW p \in Peers, NEW b \in BOOLEAN,
           thr' = [thr EXCEPT ![p].pc = "file", ![p].err = b]
    PROVE  /\ thr' \in [Peers -> ThreadType] /\ Moves(p, "file")
           /\ thr'[p].from = thr[p].from /\ thr'[p].err = b
<1>0. "file" \in ThreadPc
  BY DEF ThreadPc
<1>1. PICK R : R = ThreadType
  OBVIOUS
<1>2. thr \in [Peers -> R]
  BY <1>1
<1>3. PICK r \in R : r = thr[p]
  BY <1>2
<1>4. PICK t \in R : t = [r EXCEPT !.pc = "file"]
  BY <1>0, <1>1, <1>3, ThreadFacts
<1>5. PICK u \in R : u = [t EXCEPT !.err = b]
  BY <1>1, <1>4, ThreadFacts
<1>6. thr' = [thr EXCEPT ![p] = u]
  BY <1>2, <1>3, <1>4, <1>5
<1>7. thr' \in [Peers -> R] /\ thr'[p] = u /\ \A q \in Peers \ {p} : thr'[q] = thr[q]
  BY <1>2, <1>6
<1>8. t.pc = "file" /\ t.fd = r.fd /\ t.dup = r.dup /\ t.from = r.from
  BY <1>0, <1>1, <1>3, <1>4, ThreadFacts
<1>9. u.pc = t.pc /\ u.fd = t.fd /\ u.dup = t.dup /\ u.from = t.from /\ u.err = b
  BY <1>1, <1>4, <1>5, ThreadFacts
<1> QED
  BY <1>1, <1>3, <1>7, <1>8, <1>9 DEF Moves

LEMMA FailFacts ==
    ASSUME thr \in [Peers -> ThreadType], NEW p \in Peers, NEW n \in Numbers,
           thr' = [thr EXCEPT ![p].pc = "failed", ![p].fd = n]
    PROVE  /\ thr' \in [Peers -> ThreadType] /\ thr'[p].pc = "failed" /\ thr'[p].fd = n
           /\ thr'[p].dup = thr[p].dup
           /\ \A q \in Peers \ {p} : thr'[q] = thr[q]
<1>0. "failed" \in ThreadPc
  BY DEF ThreadPc
<1>1. PICK R : R = ThreadType
  OBVIOUS
<1>2. thr \in [Peers -> R]
  BY <1>1
<1>3. PICK r \in R : r = thr[p]
  BY <1>2
<1>4. PICK t \in R : t = [r EXCEPT !.pc = "failed"]
  BY <1>0, <1>1, <1>3, ThreadFacts
<1>5. PICK u \in R : u = [t EXCEPT !.fd = n]
  BY <1>1, <1>4, ThreadFacts
<1>6. thr' = [thr EXCEPT ![p] = u]
  BY <1>2, <1>3, <1>4, <1>5
<1>7. thr' \in [Peers -> R] /\ thr'[p] = u /\ \A q \in Peers \ {p} : thr'[q] = thr[q]
  BY <1>2, <1>6
<1>8. t.pc = "failed" /\ t.dup = r.dup
  BY <1>0, <1>1, <1>3, <1>4, ThreadFacts
<1>9. u.pc = t.pc /\ u.fd = n /\ u.dup = t.dup
  BY <1>1, <1>4, <1>5, ThreadFacts
<1> QED
  BY <1>1, <1>3, <1>7, <1>8, <1>9

LEMMA BeginFacts ==
    ASSUME thr \in [Peers -> ThreadType], NEW p \in Peers,
           NEW n \in Numbers, NEW m \in Numbers \cup {0},
           thr' = [thr EXCEPT ![p] = NewThread(n, m)]
    PROVE  /\ thr' \in [Peers -> ThreadType] /\ thr'[p].pc = "register"
           /\ thr'[p].fd = n /\ thr'[p].dup = m /\ ~thr'[p].err
           /\ \A q \in Peers \ {p} : thr'[q] = thr[q]
<1>1. PICK R : R = ThreadType
  OBVIOUS
<1>2. thr \in [Peers -> R]
  BY <1>1
<1>3. PICK u \in R : u = [pc |-> "register", fd |-> n, dup |-> m, from |-> Nobody, err |-> FALSE]
  BY <1>1 DEF ThreadType, ThreadPc
<1>4. thr' = [thr EXCEPT ![p] = u]
  BY <1>3 DEF NewThread
<1>5. u.pc = "register" /\ u.fd = n /\ u.dup = m /\ ~u.err
  BY <1>3
<1>6. thr' \in [Peers -> R] /\ thr'[p] = u /\ \A q \in Peers \ {p} : thr'[q] = thr[q]
  BY <1>2, <1>4
<1> QED
  BY <1>1, <1>5, <1>6

-----------------------------------------------------------------------------
(* Where a client is, before its thread starts, and what numbers it has.   *)

Busy == acc.pc \in {"auth", "setup"}
Waits(p) == \E i \in DOMAIN backlog : backlog[i] = p

(* A client is at one place: not connected, in the backlog, with the       *)
(* accept goroutine, or with a thread.  An event means one waits.          *)
Placed ==
    /\ \A p \in Peers : peer[p].pc = "new" => thr[p].pc = "none" /\ ~Waits(p) /\ ~(Busy /\ acc.p = p)
    /\ \A p \in Peers : Waits(p) => thr[p].pc = "none" /\ ~(Busy /\ acc.p = p)
    /\ \A i, j \in DOMAIN backlog : backlog[i] = backlog[j] => i = j
    /\ Busy => acc.p \in Peers /\ acc.fd \in Numbers /\ thr[acc.p].pc = "none"
    /\ edge => backlog # <<>>

Numbered ==
    \A p \in Peers :
        /\ thr[p].pc # "none" => thr[p].fd \in Numbers
        /\ thr[p].pc \notin {"none", "failed"} => thr[p].dup \in Numbers

Base == TypesOK /\ Placed /\ Numbered

LEMMA TypesFacts ==
    ASSUME TypesOK
    PROVE  /\ peer \in [Peers -> PeerType] /\ inbox \in [Peers -> Seq(Items)]
           /\ backlog \in Seq(Peers) /\ edge \in BOOLEAN
           /\ table \in [Numbers -> Peers \cup {Nobody}] /\ Numbers \subseteq Nat
           /\ acc.pc \in {"poll", "auth", "setup", "ended"} /\ acc.p \in Peers \cup {Nobody}
           /\ acc.fd \in Numbers \cup {0}
           /\ thr \in [Peers -> ThreadType] /\ addr \in Addresses /\ stolen \subseteq Peers
           /\ \A p \in Peers : thr[p].pc \in ThreadPc
<1>1. /\ peer \in [Peers -> PeerType] /\ inbox \in [Peers -> Seq(Items)]
      /\ backlog \in Seq(Peers) /\ edge \in BOOLEAN
      /\ thr \in [Peers -> ThreadType] /\ addr \in Addresses /\ stolen \subseteq Peers
  BY DEF TypesOK
<1>2. table \in [Numbers -> Peers \cup {Nobody}] /\ Numbers \subseteq Nat
  <2>1. PICK n \in Limits : table \in [1 .. n -> Peers \cup {Nobody}]
    BY DEF TypesOK
  <2> QED
    BY <2>1 DEF Numbers
<1>3. /\ acc.pc \in {"poll", "auth", "setup", "ended"} /\ acc.p \in Peers \cup {Nobody}
      /\ acc.fd \in Numbers \cup {0}
  BY DEF TypesOK, AcceptType
<1>4. \A p \in Peers : thr[p].pc \in ThreadPc
  BY <1>1 DEF ThreadType
<1> QED
  BY <1>1, <1>2, <1>3, <1>4

LEMMA ClosingFacts ==
    ASSUME table \in [Numbers -> Peers \cup {Nobody}], stolen \subseteq Peers,
           NEW p, NEW ns \in SUBSET Numbers, Closing(p, ns)
    PROVE  /\ table' \in [Numbers -> Peers \cup {Nobody}] /\ DOMAIN table' = Numbers
           /\ \A n \in Numbers \ ns : table'[n] = table[n]
           /\ \A n \in ns : table'[n] = Nobody
           /\ stolen \subseteq stolen' /\ stolen' \subseteq Peers
           /\ stolen' = {} => stolen = {} /\ \A n \in ns : table[n] \in {p, Nobody}
  BY DEF Closing, Numbers

LEMMA TableSteps ==
    ASSUME [Next]_vars
    PROVE  \/ UNCHANGED <<table, stolen>>
           \/ AcceptOne \/ Reject \/ Setup
           \/ \E p \in Peers : \/ RegisterThread(p) \/ Collect(p) \/ CloseConn(p)
                               \/ CloseFile(p) \/ CloseAgain(p)
  BY DEF Next, vars, kernel, books, Connect, Hangup, Send, Accepting, AcceptFails,
         Authenticate, AcceptEnds, Reading, ReadOn, ReadSync, OnTraffic, ReadEnds,
         Leaving, Unregister, Finish, Signal, Exit

(* A thread that GetThread finds has a duplicate, and so does a new one.   *)
Dups == IF ClientId(acc.p, acc.fd) \in clients
        THEN {thr[q].dup : q \in Registered(ClientId(acc.p, acc.fd))}
        ELSE {n \in Free : n = Lowest(Free)}

LEMMA DupsAreNumbers ==
    ASSUME Base
    PROVE  Dups \subseteq Numbers
<1>1. Free \subseteq Numbers
  BY DEF Free
<1>2. \A q \in Registered(ClientId(acc.p, acc.fd)) : thr[q].dup \in Numbers
  BY DEF Registered, InMap, Base, Numbered
<1> QED
  BY <1>1, <1>2 DEF Dups

LEMMA SetupFacts ==
    ASSUME Base, Setup
    PROVE  /\ acc.p \in Peers /\ acc.fd \in Numbers /\ thr[acc.p].pc = "none" /\ Busy
           /\ acc' = Polling
           /\ \/ /\ table[acc.fd] = acc.p
                 /\ \E dup \in Dups :
                       /\ table' = IF ClientId(acc.p, acc.fd) \in clients THEN table
                                   ELSE [table EXCEPT ![dup] = acc.p]
                       /\ thr' = [thr EXCEPT ![acc.p] = NewThread(acc.fd, dup)]
                 /\ active' = active + 1 /\ stolen' = stolen
              \/ /\ Closing(acc.p, {acc.fd})
                 /\ thr' = [thr EXCEPT ![acc.p].pc = "failed", ![acc.p].fd = acc.fd]
                 /\ active' = active
<1>1. acc.p \in Peers /\ acc.fd \in Numbers /\ thr[acc.p].pc = "none" /\ Busy
  BY DEF Base, Placed, Busy, Setup
<1>2. acc' = Polling
  BY DEF Setup
<1>3. \/ /\ table[acc.fd] = acc.p
         /\ \E dup \in Dups :
               /\ table' = IF ClientId(acc.p, acc.fd) \in clients THEN table
                           ELSE [table EXCEPT ![dup] = acc.p]
               /\ thr' = [thr EXCEPT ![acc.p] = NewThread(acc.fd, dup)]
         /\ active' = active + 1 /\ stolen' = stolen
      \/ /\ Closing(acc.p, {acc.fd})
         /\ thr' = [thr EXCEPT ![acc.p].pc = "failed", ![acc.p].fd = acc.fd]
         /\ active' = active
  BY Zenon DEF Setup, Dups
<1> QED
  BY <1>1, <1>2, <1>3

LEMMA TableTyped ==
    ASSUME Base, [Next]_vars
    PROVE  /\ table' \in [Numbers -> Peers \cup {Nobody}] /\ Numbers' = Numbers
           /\ stolen \subseteq stolen' /\ stolen' \subseteq Peers
<1>1. /\ table \in [Numbers -> Peers \cup {Nobody}] /\ stolen \subseteq Peers
      /\ Numbers \subseteq Nat
  BY TypesFacts DEF Base
<1>2. CASE UNCHANGED <<table, stolen>>
  BY <1>1, <1>2 DEF Numbers
<1>3. CASE AcceptOne
  <2>1. Head(backlog) \in Peers
    BY <1>3, QueueFacts, TypesFacts DEF Base, Placed, AcceptOne
  <2>2. Lowest(Free) \in Free /\ Free \subseteq Numbers
    BY <1>1, <1>3, LowestFacts DEF AcceptOne, Free
  <2>3. table' = [table EXCEPT ![Lowest(Free)] = Head(backlog)] /\ stolen' = stolen
    BY <1>3 DEF AcceptOne
  <2> QED
    BY <1>1, <2>1, <2>2, <2>3 DEF Numbers
<1>4. CASE Reject
  <2>1. Closing(acc.p, {acc.fd}) /\ acc.fd \in Numbers
    BY <1>4 DEF Reject, Base, Placed, Busy
  <2> QED
    BY <1>1, <2>1, ClosingFacts DEF Numbers
<1>5. CASE Setup
  <2>1. CASE /\ stolen' = stolen
             /\ \E dup \in Dups :
                   table' = IF ClientId(acc.p, acc.fd) \in clients THEN table
                            ELSE [table EXCEPT ![dup] = acc.p]
    <3>1. acc.p \in Peers
      BY <1>5, SetupFacts
    <3>2. PICK dup \in Numbers : table' = table \/ table' = [table EXCEPT ![dup] = acc.p]
      BY <2>1, DupsAreNumbers
    <3> QED
      BY <1>1, <2>1, <3>1, <3>2 DEF Numbers
  <2>2. CASE Closing(acc.p, {acc.fd})
    BY <1>1, <1>5, <2>2, SetupFacts, ClosingFacts DEF Numbers
  <2>3. \/ /\ stolen' = stolen
           /\ \E dup \in Dups :
                 table' = IF ClientId(acc.p, acc.fd) \in clients THEN table
                          ELSE [table EXCEPT ![dup] = acc.p]
        \/ Closing(acc.p, {acc.fd})
    BY <1>5, SetupFacts
  <2> QED
    BY <2>1, <2>2, <2>3
<1>6. ASSUME NEW p \in Peers,
             RegisterThread(p) \/ Collect(p) \/ CloseConn(p) \/ CloseFile(p) \/ CloseAgain(p)
      PROVE  /\ table' \in [Numbers -> Peers \cup {Nobody}] /\ Numbers' = Numbers
             /\ stolen \subseteq stolen' /\ stolen' \subseteq Peers
  <2>1. thr[p].fd \in Numbers /\ thr[p].dup \in Numbers
    BY <1>6 DEF RegisterThread, Collect, CloseConn, CloseFile, CloseAgain, At, Base, Numbered
  <2>2. \/ UNCHANGED <<table, stolen>>
        \/ \E ns \in SUBSET Numbers : Closing(p, ns)
    BY <1>6, <2>1 DEF RegisterThread, Collect, CloseConn, CloseFile, CloseAgain
  <2> QED
    BY <1>1, <1>2, <2>2, ClosingFacts DEF Numbers
<1> QED
  BY <1>2, <1>3, <1>4, <1>5, <1>6, TableSteps

-----------------------------------------------------------------------------
(* The paths of a thread.                                                  *)

Path == { <<"register", "run">>, <<"register", "refused">>, <<"refused", "collected">>,
          <<"run", "serve">>, <<"serve", "run">>, <<"run", "leave">>,
          <<"leave", "conn">>, <<"leave", "again">>, <<"conn", "file">>,
          <<"file", "again">>, <<"again", "finish">>, <<"finish", "gone">> }

Walks(p) == \E w \in ThreadPc : Moves(p, w) /\ <<thr[p].pc, w>> \in Path
ThreadStarts ==
    /\ acc.pc = "setup" /\ acc' = Polling
    /\ acc.p \in Peers /\ acc.fd \in Numbers /\ thr[acc.p].pc = "none"
    /\ \/ \E dup \in Dups : Starts(acc.p, "register", dup)
       \/ \E dup \in Numbers \cup {0} : Starts(acc.p, "failed", dup)

LEMMA ThreadSteps ==
    ASSUME [Next]_vars
    PROVE  \/ UNCHANGED thr
           \/ Setup
           \/ \E p \in Peers : \/ RegisterThread(p) \/ Collect(p) \/ ReadSync(p) \/ OnTraffic(p)
                               \/ ReadEnds(p) \/ Unregister(p) \/ CloseConn(p)
                               \/ CloseFile(p) \/ CloseAgain(p) \/ Finish(p)
  BY DEF Next, vars, kernel, books, Connect, Hangup, Send, Accepting, AcceptOne, AcceptFails,
         Authenticate, Reject, AcceptEnds, Reading, ReadOn, Leaving, Signal, Exit

LEMMA ThreadsTyped ==
    ASSUME Base, [Next]_vars
    PROVE  /\ thr' \in [Peers -> ThreadType]
           /\ thr' = thr \/ ThreadStarts \/ \E p \in Peers : Walks(p)
           /\ Setup => ThreadStarts
           /\ \A p \in Peers : thr[p].pc = "finish" /\ thr'[p].pc # "finish" => Finish(p)
<1>1. thr \in [Peers -> ThreadType] /\ table \in [Numbers -> Peers \cup {Nobody}]
  BY TypesFacts DEF Base
<1>2. CASE Setup
  <2>1. acc.p \in Peers /\ acc.fd \in Numbers /\ thr[acc.p].pc = "none" /\ acc' = Polling
        /\ acc.pc = "setup"
    BY <1>2, SetupFacts DEF Setup
  <2>2. ASSUME NEW dup \in Dups, thr' = [thr EXCEPT ![acc.p] = NewThread(acc.fd, dup)]
        PROVE  thr' \in [Peers -> ThreadType] /\ Starts(acc.p, "register", dup)
    <3>1. dup \in Numbers \cup {0}
      BY DupsAreNumbers
    <3>2. PICK p \in Peers, n \in Numbers : p = acc.p /\ n = acc.fd
      BY <2>1
    <3>3. thr' = [thr EXCEPT ![p] = NewThread(n, dup)]
      BY <2>2, <3>2
    <3>4. /\ thr' \in [Peers -> ThreadType] /\ thr'[p].pc = "register"
          /\ thr'[p].fd = n /\ thr'[p].dup = dup
          /\ \A q \in Peers \ {p} : thr'[q] = thr[q]
      BY <1>1, <3>1, <3>3, BeginFacts
    <3> QED
      BY <3>2, <3>4 DEF Starts
  <2>3. CASE thr' = [thr EXCEPT ![acc.p].pc = "failed", ![acc.p].fd = acc.fd]
    <3>1. thr[acc.p].dup \in Numbers \cup {0}
      BY <1>1, <2>1 DEF ThreadType
    <3>2. PICK p \in Peers, n \in Numbers : p = acc.p /\ n = acc.fd
      BY <2>1
    <3>3. thr' = [thr EXCEPT ![p].pc = "failed", ![p].fd = n]
      BY <2>3, <3>2
    <3>4. /\ thr' \in [Peers -> ThreadType] /\ thr'[p].pc = "failed" /\ thr'[p].fd = n
          /\ thr'[p].dup = thr[p].dup /\ \A q \in Peers \ {p} : thr'[q] = thr[q]
      BY <1>1, <3>3, FailFacts
    <3>5. Starts(acc.p, "failed", thr[acc.p].dup)
      BY <3>2, <3>4 DEF Starts
    <3>6. ThreadStarts
      BY <2>1, <3>1, <3>5 DEF ThreadStarts
    <3>7. \A q \in Peers : thr[q].pc = "finish" => thr'[q] = thr[q]
      BY <2>1, <3>2, <3>4
    <3> QED
      BY <3>4, <3>6, <3>7
  <2> QED
    BY <1>2, <2>1, <2>2, <2>3, SetupFacts DEF ThreadStarts
<1>3. ASSUME NEW p \in Peers, NEW w \in ThreadPc, GoTo(p, w), <<thr[p].pc, w>> \in Path
      PROVE  thr' \in [Peers -> ThreadType] /\ Walks(p)
  BY <1>1, <1>3, GoToFacts DEF Walks
<1>4. ASSUME NEW p \in Peers, ReadSync(p)
      PROVE  thr' \in [Peers -> ThreadType] /\ Walks(p)
  <2>1. thr[p].dup \in Numbers
    BY <1>4 DEF ReadSync, At, Base, Numbered
  <2>2. table[thr[p].dup] \in Peers /\ thr[p].pc = "run"
    BY <1>1, <1>4, <2>1 DEF ReadSync, At
  <2>3. thr' = [thr EXCEPT ![p].pc = "serve", ![p].from = table[thr[p].dup]]
    BY <1>4 DEF ReadSync
  <2>4. thr' \in [Peers -> ThreadType] /\ Moves(p, "serve")
    BY <1>1, <2>2, <2>3, ReadFacts
  <2> QED
    BY <2>2, <2>4 DEF Walks, Path, ThreadPc
<1>5. ASSUME NEW p \in Peers, CloseConn(p)
      PROVE  thr' \in [Peers -> ThreadType] /\ Walks(p)
  <2>1. thr' = [thr EXCEPT ![p].pc = "file", ![p].err = table[thr[p].dup] = Nobody]
        /\ thr[p].pc = "conn"
    BY <1>5 DEF CloseConn, At
  <2>2. thr' \in [Peers -> ThreadType] /\ Moves(p, "file")
    BY <1>1, <2>1, CloseConnFacts
  <2> QED
    BY <2>1, <2>2 DEF Walks, Path, ThreadPc
<1>6. ASSUME NEW p \in Peers,
             \/ RegisterThread(p) \/ Collect(p) \/ OnTraffic(p) \/ ReadEnds(p) \/ Unregister(p)
             \/ CloseFile(p) \/ CloseAgain(p) \/ Finish(p)
      PROVE  thr' \in [Peers -> ThreadType] /\ Walks(p) /\ (thr[p].pc = "finish" => Finish(p))
  <2>1. \E w \in ThreadPc : GoTo(p, w) /\ <<thr[p].pc, w>> \in Path
    BY <1>6 DEF RegisterThread, Collect, OnTraffic, ReadEnds, Unregister, CloseFile, CloseAgain,
                Finish, At, Path, ThreadPc
  <2>2. thr[p].pc = "finish" => Finish(p)
    BY <1>6 DEF RegisterThread, Collect, OnTraffic, ReadEnds, Unregister, CloseFile, CloseAgain, At
  <2> QED
    BY <1>3, <2>1, <2>2
<1>7. /\ thr' \in [Peers -> ThreadType]
      /\ thr' = thr \/ ThreadStarts \/ \E p \in Peers : Walks(p)
  BY <1>1, <1>2, <1>4, <1>5, <1>6, ThreadSteps
<1>8. ASSUME NEW p \in Peers, thr[p].pc = "finish", thr'[p].pc # "finish"
      PROVE  Finish(p)
  <2>1. ~Setup
    BY <1>2, <1>8 DEF ThreadStarts, Starts
  <2>2. PICK q \in Peers : \/ RegisterThread(q) \/ Collect(q) \/ ReadSync(q) \/ OnTraffic(q)
                           \/ ReadEnds(q) \/ Unregister(q) \/ CloseConn(q)
                           \/ CloseFile(q) \/ CloseAgain(q) \/ Finish(q)
    BY <1>8, <2>1, ThreadSteps
  <2>3. Walks(q)
    BY <2>2, <1>4, <1>5, <1>6
  <2>4. q = p
    BY <1>8, <2>3 DEF Walks, Moves
  <2>5. ~ReadSync(p) /\ ~CloseConn(p)
    BY <1>8 DEF ReadSync, CloseConn, At
  <2> QED
    BY <1>6, <1>8, <2>2, <2>4, <2>5
<1> QED
  BY <1>2, <1>7, <1>8

LEMMA NumberedStays ==
    ASSUME Base, [Next]_vars
    PROVE  Numbered'
<1>1. Numbers' = Numbers
  BY TableTyped
<1>2. CASE ThreadStarts
  BY <1>1, <1>2, DupsAreNumbers DEF Base, Numbered, ThreadStarts, Starts
<1>3. ASSUME NEW p \in Peers, Walks(p)
      PROVE  Numbered'
  <2>1. thr[p].pc \notin {"none", "failed"}
    BY <1>3 DEF Walks, Path
  <2> QED
    BY <1>1, <1>3, <2>1 DEF Base, Numbered, Walks, Moves
<1> QED
  BY <1>1, <1>2, <1>3, ThreadsTyped DEF Base, Numbered

-----------------------------------------------------------------------------
(* The accept goroutine, the queues, and the sets of ids.                  *)

Accepts ==
    /\ acc'.pc = "auth" /\ acc'.p = Head(backlog) /\ acc'.fd = Lowest(Free)
    /\ acc'.p \in Peers /\ acc'.fd \in Numbers /\ table[acc'.fd] = Nobody

LEMMA AcceptSteps ==
    ASSUME [Next]_vars
    PROVE  \/ UNCHANGED acc
           \/ AcceptOne \/ Authenticate \/ Reject \/ Setup \/ AcceptEnds
  BY DEF Next, vars, kernel, books, Connect, Hangup, Send, Accepting, AcceptFails,
         Reading, ReadOn, ReadSync, OnTraffic, ReadEnds, Leaving, RegisterThread, Unregister, CloseConn,
         CloseFile, CloseAgain, Finish, Collect, Signal, Exit

LEMMA AcceptTyped ==
    ASSUME Base, [Next]_vars
    PROVE  /\ acc' \in AcceptType
           /\ \/ acc' = acc
              \/ AcceptOne /\ Accepts
              \/ Authenticate /\ acc'.pc = "setup" /\ acc'.p = acc.p /\ acc'.fd = acc.fd
              \/ acc' = Polling
              \/ acc.pc = "poll" /\ acc'.pc = "ended"
<1>1. PICK R : R = AcceptType
  OBVIOUS
<1>2. acc \in R
  BY <1>1 DEF Base, TypesOK
<1>3. PICK r \in R : r = acc
  BY <1>2
<1>4. \A w \in {"setup", "ended"} :
         /\ [r EXCEPT !.pc = w] \in R /\ [r EXCEPT !.pc = w].pc = w
         /\ [r EXCEPT !.pc = w].p = r.p /\ [r EXCEPT !.pc = w].fd = r.fd
  BY <1>1 DEF AcceptType
<1>5. CASE AcceptOne
  <2>1. Head(backlog) \in Peers
    BY <1>5, QueueFacts, TypesFacts DEF Base, Placed, AcceptOne
  <2>2. Lowest(Free) \in Numbers /\ table[Lowest(Free)] = Nobody
    <3>1. Free \subseteq Nat /\ Free # {}
      BY <1>5, TypesFacts DEF AcceptOne, Free, Base
    <3>2. Lowest(Free) \in Free
      BY <3>1, LowestFacts
    <3> QED
      BY <3>2 DEF Free
  <2>3. acc' = [pc |-> "auth", p |-> Head(backlog), fd |-> Lowest(Free)]
    BY <1>5 DEF AcceptOne
  <2> QED
    BY <1>5, <2>1, <2>2, <2>3 DEF Accepts, AcceptType
<1>6. CASE Authenticate
  <2>1. acc' = [r EXCEPT !.pc = "setup"]
    BY <1>3, <1>6 DEF Authenticate
  <2> QED
    BY <1>1, <1>3, <1>4, <1>6, <2>1
<1>7. CASE AcceptEnds
  <2>1. acc' = [r EXCEPT !.pc = "ended"] /\ acc.pc = "poll"
    BY <1>3, <1>7 DEF AcceptEnds
  <2> QED
    BY <1>1, <1>3, <1>4, <2>1
<1>8. CASE Reject \/ Setup
  BY <1>8 DEF Reject, Setup, Polling, AcceptType
<1> QED
  BY <1>1, <1>2, <1>5, <1>6, <1>7, <1>8, AcceptSteps

LEMMA QueueSteps ==
    ASSUME [Next]_vars
    PROVE  \/ /\ backlog' = backlog /\ edge' = edge
           \/ AcceptFails \/ AcceptOne
           \/ \E p \in Peers : Connect(p)
  BY DEF Next, vars, kernel, books, Hangup, Send, Accepting, Authenticate, Reject, Setup, AcceptEnds,
         Reading, ReadOn, ReadSync, OnTraffic, ReadEnds, Leaving, RegisterThread, Unregister, CloseConn,
         CloseFile, CloseAgain, Finish, Collect, Signal, Exit

(* A step that neither connects nor accepts.                               *)
LEMMA QuietStep ==
    ASSUME Base, [Next]_vars, ~AcceptOne, \A p \in Peers : ~Connect(p)
    PROVE  /\ backlog' = backlog /\ (edge' => edge)
           /\ \A q \in Peers : peer'[q].pc = "new" => peer[q].pc = "new"
           /\ Busy' => Busy /\ acc'.p = acc.p /\ acc'.fd = acc.fd
<1>1. backlog' = backlog /\ (edge' => edge)
  <2>1. CASE AcceptFails
    <3>1. backlog' = backlog
      BY <2>1 DEF AcceptFails
    <3>2. edge
      BY <2>1, Zenon DEF AcceptFails
    <3> QED
      BY <3>1, <3>2
  <2>2. CASE backlog' = backlog /\ edge' = edge
    BY <2>2, Zenon
  <2> QED
    BY <2>1, <2>2, QueueSteps
<1>2. \A q \in Peers : peer'[q].pc = "new" => peer[q].pc = "new"
  <2>1. peer \in [Peers -> PeerType]
    BY TypesFacts DEF Base
  <2>2. ASSUME NEW p \in Peers, Hangup(p)
        PROVE  \A q \in Peers : peer'[q].pc = "new" => peer[q].pc = "new"
    BY <2>1, <2>2, PlugFacts DEF Hangup
  <2>3. ASSUME NEW p \in Peers, OnTraffic(p)
        PROVE  \A q \in Peers : peer'[q].pc = "new" => peer[q].pc = "new"
    BY <2>1, <2>3, AnswerFacts DEF OnTraffic
  <2>4. CASE Authenticate
    BY <2>1, <2>4, AnswerFacts DEF Authenticate
  <2>5. ASSUME NEW p \in Peers, NEW f \in Frames, Send(p, f)
        PROVE  \A q \in Peers : peer'[q].pc = "new" => peer[q].pc = "new"
    BY <2>1, <2>5, SendFacts
  <2> QED
    BY <2>2, <2>3, <2>4, <2>5, PeerSteps
<1>3. Busy' => Busy /\ acc'.p = acc.p /\ acc'.fd = acc.fd
  <2>1. CASE acc' = Polling
    BY <2>1 DEF Polling, Busy
  <2>2. CASE Authenticate /\ acc'.p = acc.p /\ acc'.fd = acc.fd
    BY <2>2 DEF Authenticate, Busy
  <2> QED
    BY <2>1, <2>2, AcceptTyped DEF Busy
<1> QED
  BY <1>1, <1>2, <1>3

LEMMA BacklogTyped ==
    ASSUME Base, [Next]_vars
    PROVE  backlog' \in Seq(Peers) /\ edge' \in BOOLEAN
<1>1. backlog \in Seq(Peers) /\ edge \in BOOLEAN
  BY TypesFacts DEF Base
<1>2. CASE AcceptOne
  BY <1>1, <1>2, QueueFacts DEF AcceptOne, Base, Placed
<1>3. ASSUME NEW p \in Peers, Connect(p)
      PROVE  backlog' \in Seq(Peers) /\ edge' \in BOOLEAN
  BY <1>1, <1>3, BehindFacts DEF Connect
<1> QED
  BY <1>1, <1>2, <1>3, QueueSteps DEF AcceptFails

(* Frames are received at the end, and taken from the front.               *)
LEMMA InboxSteps ==
    ASSUME [Next]_vars
    PROVE  \/ inbox' = inbox
           \/ \E p \in Peers, f \in Frames : Send(p, f)
           \/ Authenticate \/ Reject
           \/ \E p \in Peers : ReadSync(p) \/ ReadOn(p) \/ ReadEnds(p)
  BY DEF Next, vars, kernel, books, Connect, Hangup, Accepting, AcceptOne, AcceptFails, Setup,
         AcceptEnds, Reading, OnTraffic, Leaving, RegisterThread, Unregister, CloseConn,
         CloseFile, CloseAgain, Finish, Collect, Signal, Exit

(* What ReadSync and the accept goroutine leave in an inbox is a part of   *)
(* what was there, and pieces.                                             *)
Shortens(p) ==
    /\ inbox'[p] \in Seq(Items)
    /\ \A i \in DOMAIN inbox'[p] :
          inbox'[p][i] \in Scraps \/ \E j \in DOMAIN inbox[p] : inbox'[p][i] = inbox[p][j]
    /\ inbox[p] = <<>> => inbox'[p] = <<>>
    /\ \A q \in Peers \ {p} : inbox'[q] = inbox[q]

LEMMA EmptiesFacts ==
    ASSUME inbox \in [Peers -> Seq(Items)], NEW p \in Peers, inbox' = [inbox EXCEPT ![p] = <<>>]
    PROVE  inbox' \in [Peers -> Seq(Items)] /\ Shortens(p)
<1>1. <<>> \in Seq(Items) /\ DOMAIN (<<>>) = {}
  OBVIOUS
<1>2. inbox' \in [Peers -> Seq(Items)] /\ inbox'[p] = <<>>
      /\ \A q \in Peers \ {p} : inbox'[q] = inbox[q]
  BY <1>1
<1> QED
  BY <1>1, <1>2 DEF Shortens

LEMMA TakesFacts ==
    ASSUME inbox \in [Peers -> Seq(Items)], NEW p \in Peers, inbox[p] # <<>>,
           NEW r \in Left(Tail(inbox[p])), inbox' = [inbox EXCEPT ![p] = r]
    PROVE  inbox' \in [Peers -> Seq(Items)] /\ Shortens(p)
<1>1. PICK q \in Seq(Items) : q = Tail(inbox[p])
  BY TakeFacts
<1>2. \A j \in DOMAIN q : \E i \in DOMAIN inbox[p] : q[j] = inbox[p][i]
  BY <1>1, TakeFacts
<1>3. /\ r \in Seq(Items)
      /\ \A i \in DOMAIN r : r[i] \in Scraps \/ \E j \in DOMAIN q : r[i] = q[j]
  BY <1>1, LeftFacts
<1>4. inbox' \in [Peers -> Seq(Items)] /\ inbox'[p] = r
      /\ \A s \in Peers \ {p} : inbox'[s] = inbox[s]
  BY <1>3
<1>5. ASSUME NEW i \in DOMAIN r
      PROVE  r[i] \in Scraps \/ \E j \in DOMAIN inbox[p] : r[i] = inbox[p][j]
  BY <1>2, <1>3
<1> QED
  BY <1>3, <1>4, <1>5 DEF Shortens

LEMMA InboxTyped ==
    ASSUME Base, [Next]_vars
    PROVE  /\ inbox' \in [Peers -> Seq(Items)]
           /\ \/ inbox' = inbox
              \/ \E p \in Peers, f \in Frames :
                    /\ Send(p, f) /\ inbox'[p] = Append(inbox[p], f)
                    /\ \A q \in Peers \ {p} : inbox'[q] = inbox[q]
              \/ \E p \in Peers : Shortens(p)
<1>1. inbox \in [Peers -> Seq(Items)] /\ table \in [Numbers -> Peers \cup {Nobody}]
  BY TypesFacts DEF Base
<1>2. ASSUME NEW p \in Peers, NEW f \in Frames, Send(p, f)
      PROVE  /\ inbox' \in [Peers -> Seq(Items)] /\ inbox'[p] = Append(inbox[p], f)
             /\ \A q \in Peers \ {p} : inbox'[q] = inbox[q]
  <2>1. f \in Items
    BY DEF Items
  <2>2. inbox' = [inbox EXCEPT ![p] = Append(inbox[p], f)]
    BY <1>2 DEF Send
  <2>3. Append(inbox[p], f) \in Seq(Items)
    BY <1>1, <2>1
  <2> QED
    BY <1>1, <2>2, <2>3
<1>3. CASE Authenticate
  <2>1. acc.p \in Peers /\ inbox[acc.p] # <<>> /\ inbox' = [inbox EXCEPT ![acc.p] = Tail(inbox[acc.p])]
    BY <1>3 DEF Authenticate, Base, Placed, Busy
  <2>2. PICK p \in Peers : p = acc.p
    BY <2>1
  <2>3. /\ Tail(inbox[p]) \in Seq(Items)
        /\ \A i \in DOMAIN Tail(inbox[p]) : \E j \in DOMAIN inbox[p] : Tail(inbox[p])[i] = inbox[p][j]
    BY <1>1, <2>1, <2>2, TakeFacts
  <2>4. inbox' \in [Peers -> Seq(Items)] /\ inbox'[p] = Tail(inbox[p])
        /\ \A q \in Peers \ {p} : inbox'[q] = inbox[q]
    BY <1>1, <2>1, <2>2, <2>3
  <2> QED
    BY <2>1, <2>2, <2>3, <2>4 DEF Shortens
<1>4. CASE Reject
  <2>1. PICK p \in Peers : p = acc.p
    BY <1>4 DEF Reject, Base, Placed, Busy
  <2>2. inbox' = [inbox EXCEPT ![p] = <<>>]
    BY <1>4, <2>1 DEF Reject
  <2> QED
    BY <1>1, <2>2, EmptiesFacts
<1>5. ASSUME NEW q \in Peers, ReadSync(q) \/ ReadOn(q) \/ ReadEnds(q)
      PROVE  \/ inbox' = inbox
             \/ inbox' \in [Peers -> Seq(Items)] /\ \E p \in Peers : Shortens(p)
  <2>1. thr[q].dup \in Numbers
    BY <1>5 DEF ReadSync, ReadOn, ReadEnds, At, Base, Numbered
  <2>2. CASE table[thr[q].dup] = Nobody
    BY <1>5, <2>2 DEF ReadSync, ReadOn, ReadEnds
  <2>3. CASE table[thr[q].dup] # Nobody
    <3>1. PICK p \in Peers : p = table[thr[q].dup]
      BY <1>1, <2>1, <2>3
    <3>2. CASE inbox' = [inbox EXCEPT ![p] = <<>>]
      BY <1>1, <3>2, EmptiesFacts
    <3>3. CASE inbox[p] # <<>> /\ \E r \in Left(Tail(inbox[p])) : inbox' = [inbox EXCEPT ![p] = r]
      BY <1>1, <3>3, TakesFacts
    <3>4. CASE inbox[p] # <<>> /\ inbox' = [inbox EXCEPT ![p] = <<"part">>]
      <4>1. PICK r : r = <<"part">>
        OBVIOUS
      <4>2. r \in Seq(Items) /\ \A i \in DOMAIN r : r[i] \in Scraps
        BY <4>1 DEF Items, Scraps
      <4>3. inbox' \in [Peers -> Seq(Items)] /\ inbox'[p] = r
            /\ \A s \in Peers \ {p} : inbox'[s] = inbox[s]
        BY <1>1, <3>4, <4>1, <4>2
      <4> QED
        BY <3>4, <4>2, <4>3 DEF Shortens
    <3>5. ASSUME ReadSync(q)
          PROVE  inbox[p] # <<>> /\ \E r \in Left(Tail(inbox[p])) : inbox' = [inbox EXCEPT ![p] = r]
      BY <3>1, <3>5 DEF ReadSync
    <3>6. ASSUME ReadOn(q)
          PROVE  inbox[p] # <<>> /\ inbox' = [inbox EXCEPT ![p] = <<"part">>]
      <4>1. Len(inbox[p]) > 1 /\ inbox' = [inbox EXCEPT ![p] = <<"part">>]
        BY <3>1, <3>6 DEF ReadOn
      <4>2. Len(<<>>) = 0
        OBVIOUS
      <4> QED
        BY <4>1, <4>2
    <3>7. ASSUME ReadEnds(q)
          PROVE  \/ inbox' = [inbox EXCEPT ![p] = <<>>]
                 \/ inbox[p] # <<>> /\ \E r \in Left(Tail(inbox[p])) : inbox' = [inbox EXCEPT ![p] = r]
      BY <2>3, <3>1, <3>7 DEF ReadEnds
    <3> QED
      BY <1>5, <3>2, <3>3, <3>4, <3>5, <3>6, <3>7
  <2> QED
    BY <2>2, <2>3
<1> QED
  BY <1>1, <1>2, <1>3, <1>4, <1>5, InboxSteps

(* Nobody's address or limit changes.                                      *)
LEMMA OtherSteps ==
    ASSUME [Next]_vars
    PROVE  /\ addr' = addr
           /\ srv' \in {srv, "stopped"}
           /\ cancelled \in BOOLEAN => cancelled' \in BOOLEAN
  BY DEF Next, vars, kernel, books, Connect, Hangup, Send, Accepting, AcceptOne, AcceptFails,
         Authenticate, Reject, Setup, AcceptEnds, Reading, ReadOn, ReadSync, OnTraffic, ReadEnds, Leaving,
         RegisterThread, Unregister, CloseConn, CloseFile, CloseAgain, Finish, Collect, Signal,
         Exit

LEMMA ClientSteps ==
    ASSUME [Next]_vars
    PROVE  \/ clients' = clients
           \/ \E p \in Peers : \/ RegisterThread(p) /\ clients' = clients \cup {Id(p)}
                               \/ Unregister(p) /\ clients' = clients \ {Id(p)}
  BY DEF Next, vars, kernel, books, Connect, Hangup, Send, Accepting, AcceptOne, AcceptFails,
         Authenticate, Reject, Setup, AcceptEnds, Reading, ReadOn, ReadSync, OnTraffic, ReadEnds, Leaving,
         RegisterThread, Unregister, CloseConn, CloseFile, CloseAgain, Finish, Collect, Signal,
         Exit

LEMMA SessionSteps ==
    ASSUME [Next]_vars
    PROVE  \/ sessions' = sessions
           \/ Authenticate /\ sessions' = sessions \cup {ClientId(acc.p, acc.fd)}
           \/ \E p \in Peers : Finish(p) /\ sessions' = sessions \ {Id(p)}
  BY DEF Next, vars, kernel, books, Connect, Hangup, Send, Accepting, AcceptOne, AcceptFails,
         Authenticate, Reject, Setup, AcceptEnds, Reading, ReadOn, ReadSync, OnTraffic, ReadEnds, Leaving,
         RegisterThread, Unregister, CloseConn, CloseFile, CloseAgain, Finish, Collect, Signal,
         Exit

LEMMA IdsTyped ==
    ASSUME Base, [Next]_vars
    PROVE  clients' \subseteq AllIds /\ sessions' \subseteq AllIds /\ AllIds' = AllIds
<1>1. clients \subseteq AllIds /\ sessions \subseteq AllIds
  BY DEF Base, TypesOK
<1>2. ASSUME NEW p \in Peers, RegisterThread(p)
      PROVE  Id(p) \in AllIds
  <2>1. thr[p].fd \in Numbers
    BY <1>2 DEF RegisterThread, At, Base, Numbered
  <2> QED
    BY <2>1 DEF Id, AllIds
<1>3. CASE Authenticate
  <2>1. acc.p \in Peers /\ acc.fd \in Numbers
    BY <1>3 DEF Authenticate, Base, Placed, Busy
  <2>2. ClientId(acc.p, acc.fd) \in AllIds
    BY <2>1 DEF AllIds
  <2> QED
    BY <1>1, <1>3, <2>2, TableTyped, OtherSteps DEF Authenticate, AllIds, ClientId
<1>4. AllIds' = AllIds
  BY TableTyped, OtherSteps DEF AllIds, ClientId
<1> QED
  BY <1>1, <1>2, <1>3, <1>4, ClientSteps, SessionSteps

LEMMA TypesStay ==
    ASSUME Base, [Next]_vars
    PROVE  TypesOK'
<1>1. peer' \in [Peers -> PeerType]
  BY PeersTyped DEF Base
<1>2. /\ inbox' \in [Peers -> Seq(Items)] /\ backlog' \in Seq(Peers) /\ edge' \in BOOLEAN
      /\ acc' \in AcceptType /\ thr' \in [Peers -> ThreadType] /\ Numbers' = Numbers
  BY InboxTyped, BacklogTyped, AcceptTyped, ThreadsTyped, TableTyped
<1>3. \E n \in Limits : table' \in [1 .. n -> Peers \cup {Nobody}]
  <2>1. PICK n \in Limits : Numbers = 1 .. n
    BY DEF Base, TypesOK, Numbers
  <2> QED
    BY <2>1, TableTyped
<1>4. addr' \in Addresses /\ stolen' \subseteq Peers
  BY OtherSteps, TableTyped, TypesFacts DEF Base
<1>5. clients' \subseteq AllIds' /\ sessions' \subseteq AllIds'
  BY IdsTyped
<1>6. srv' \in {"serving", "stopped"}
  BY OtherSteps DEF Base, TypesOK
<1>7. cancelled' \in BOOLEAN
  BY OtherSteps DEF Base, TypesOK
<1>8. acc' \in AcceptType' /\ thr' \in [Peers -> ThreadType'] /\ peer' \in [Peers -> PeerType']
  BY <1>1, <1>2 DEF AcceptType, ThreadType, PeerType
<1> QED
  BY <1>1, <1>2, <1>3, <1>4, <1>5, <1>6, <1>7, <1>8 DEF TypesOK

LEMMA PlacedStays ==
    ASSUME Base, [Next]_vars
    PROVE  Placed'
<1>0. /\ Numbers' = Numbers /\ peer \in [Peers -> PeerType] /\ backlog \in Seq(Peers)
      /\ acc.pc \in {"poll", "auth", "setup", "ended"}
  BY TableTyped, TypesFacts DEF Base
<1>1. ASSUME NEW p \in Peers, Connect(p)
      PROVE  Placed'
  <2>1. peer[p].pc = "new" /\ backlog' = Append(backlog, p) /\ edge' /\ acc' = acc /\ thr' = thr
    BY <1>1, Zenon DEF Connect
  <2>2. peer'[p].pc = "open" /\ \A q \in Peers \ {p} : peer'[q] = peer[q]
    BY <1>0, <1>1, PlugFacts DEF Connect
  <2>3. /\ DOMAIN backlog = 1 .. Len(backlog) /\ Len(backlog) \in Nat
        /\ DOMAIN backlog' = 1 .. Len(backlog) + 1 /\ backlog' # <<>>
        /\ backlog'[Len(backlog) + 1] = p
        /\ \A i \in DOMAIN backlog : backlog'[i] = backlog[i]
    BY <1>0, <2>1, BehindFacts
  <2>4. thr[p].pc = "none" /\ ~Waits(p) /\ ~(Busy /\ acc.p = p)
    BY <2>1 DEF Base, Placed
  <2>5. \A q \in Peers : Waits(q)' => Waits(q) \/ q = p
    BY <2>3 DEF Waits
  <2>6. \A i, j \in DOMAIN backlog' : backlog'[i] = backlog'[j] => i = j
    BY <2>3, <2>4 DEF Base, Placed, Waits
  <2>7. Busy' <=> Busy
    BY <2>1 DEF Busy
  <2>8. Placed
    BY DEF Base
  <2>9. ASSUME NEW q \in Peers, peer'[q].pc = "new"
        PROVE  thr'[q].pc = "none" /\ ~Waits(q)' /\ ~(Busy' /\ acc'.p = q)
    <3>1. q # p /\ peer[q].pc = "new"
      BY <2>2, <2>9
    <3> QED
      BY <2>1, <2>5, <2>7, <2>8, <3>1 DEF Placed
  <2>10. ASSUME NEW q \in Peers, Waits(q)'
         PROVE  thr'[q].pc = "none" /\ ~(Busy' /\ acc'.p = q)
    BY <2>1, <2>4, <2>5, <2>7, <2>8, <2>10 DEF Placed
  <2>11. Busy' => acc'.p \in Peers /\ acc'.fd \in Numbers' /\ thr'[acc'.p].pc = "none"
    BY <1>0, <2>1, <2>7, <2>8 DEF Placed
  <2> QED
    BY <2>3, <2>6, <2>9, <2>10, <2>11 DEF Placed
<1>2. CASE AcceptOne
  <2>1. backlog # <<>> /\ acc.pc = "poll" /\ ~edge' /\ peer' = peer /\ thr' = thr
        /\ backlog' = Tail(backlog)
    BY <1>2, Zenon DEF AcceptOne, Base, Placed
  <2>2. Accepts
    <3>1. acc'.pc = "auth"
      BY <1>2 DEF AcceptOne
    <3>2. Polling.pc = "poll"
      BY DEF Polling
    <3> QED
      BY <2>1, <3>1, <3>2, AcceptTyped
  <2>3. /\ Head(backlog) \in Peers /\ Head(backlog) = backlog[1]
        /\ Len(backlog) \in Nat \ {0} /\ DOMAIN backlog = 1 .. Len(backlog)
        /\ DOMAIN backlog' = 1 .. Len(backlog) - 1
        /\ \A i \in DOMAIN backlog' : backlog'[i] = backlog[i + 1]
    BY <1>0, <2>1, QueueFacts
  <2>4. PICK p \in Peers : p = Head(backlog)
    BY <2>3
  <2>5. Waits(p) /\ thr[p].pc = "none" /\ peer[p].pc # "new"
    BY <2>3, <2>4 DEF Waits, Base, Placed
  <2>6. ~Waits(p)'
    BY <2>3, <2>4 DEF Waits, Base, Placed
  <2>7. \A q \in Peers : Waits(q)' => Waits(q)
    BY <2>3 DEF Waits
  <2>8. \A i, j \in DOMAIN backlog' : backlog'[i] = backlog'[j] => i = j
    BY <2>3 DEF Base, Placed
  <2>9. Busy' /\ acc'.p = p /\ acc'.fd \in Numbers
    BY <2>2, <2>4 DEF Accepts, Busy
  <2> QED
    BY <1>0, <2>1, <2>5, <2>6, <2>7, <2>8, <2>9 DEF Base, Placed
<1>3. CASE ~AcceptOne /\ \A p \in Peers : ~Connect(p)
  <2>1. /\ backlog' = backlog /\ (edge' => edge)
        /\ \A q \in Peers : peer'[q].pc = "new" => peer[q].pc = "new"
        /\ Busy' => Busy /\ acc'.p = acc.p /\ acc'.fd = acc.fd
    BY <1>3, QuietStep
  <2>2. \A q \in Peers : Waits(q)' <=> Waits(q)
    BY <2>1 DEF Waits
  <2>3. CASE ThreadStarts
    <3>1. ~Busy'
      BY <2>3 DEF ThreadStarts, Polling, Busy
    <3>2. \A q \in Peers \ {acc.p} : thr'[q] = thr[q]
      BY <2>3 DEF ThreadStarts, Starts
    <3>3. Busy /\ acc.p \in Peers
      BY <2>3 DEF ThreadStarts, Busy
    <3> QED
      BY <1>0, <2>1, <2>2, <3>1, <3>2, <3>3 DEF Base, Placed
  <2>4. CASE thr' = thr \/ \E p \in Peers : Walks(p)
    <3>1. \A q \in Peers : thr[q].pc = "none" => thr'[q].pc = "none"
      BY <2>4 DEF Walks, Moves, Path
    <3> QED
      BY <1>0, <2>1, <2>2, <3>1 DEF Base, Placed
  <2> QED
    BY <2>3, <2>4, ThreadsTyped
<1> QED
  BY <1>1, <1>2, <1>3

LEMMA BaseStays ==
    ASSUME Base, [Next]_vars
    PROVE  Base'
  BY TypesStay, PlacedStays, NumberedStays DEF Base

LEMMA BaseStarts ==
    ASSUME Init
    PROVE  Base
<1>1. TypesOK
  <2>1. PICK n \in Limits : table = [m \in 1 .. n |-> Nobody]
    BY DEF Init
  <2>2. table \in [1 .. n -> Peers \cup {Nobody}]
    BY <2>1
  <2>3. thr \in [Peers -> ThreadType]
    <3>1. NoThread \in ThreadType
      BY DEF NoThread, ThreadType, ThreadPc
    <3> QED
      BY <3>1 DEF Init
  <2>4. peer \in [Peers -> PeerType]
    BY DEF Init, PeerType
  <2>5. acc \in AcceptType
    BY DEF Init, AcceptType, Polling
  <2>6. inbox \in [Peers -> Seq(Items)] /\ backlog \in Seq(Peers)
    BY DEF Init
  <2> QED
    BY <2>2, <2>3, <2>4, <2>5, <2>6 DEF Init, TypesOK
<1>2. Placed
  BY DEF Init, Placed, NoThread, Waits, Busy, Polling
<1>3. Numbered
  BY DEF Init, Numbered, NoThread
<1> QED
  BY <1>1, <1>2, <1>3 DEF Base

-----------------------------------------------------------------------------
(* Credentials.                                                            *)

Right == IF EnableAuth THEN "right" ELSE "none"

(* What is in an inbox was sent, and credentials there are what was sent   *)
(* first.  Whoever is past the accept goroutine sent the right ones. *)
Spoken ==
    \A p \in Peers :
        /\ peer[p].sent = 0 => inbox[p] = <<>>
        /\ \A i \in DOMAIN inbox[p] : inbox[p][i] \in Credentials => inbox[p][i] = peer[p].said
        /\ thr[p].pc # "none" => peer[p].said = Right /\ peer[p].sent > 0
        /\ acc.pc = "setup" /\ acc.p = p => peer[p].said = Right /\ peer[p].sent > 0

LEMMA SayingSteps ==
    ASSUME Base, [Next]_vars, NEW p \in Peers
    PROVE  \/ peer'[p].said = peer[p].said /\ peer'[p].sent = peer[p].sent
           \/ \E f \in Frames : Send(p, f)
<1>1. peer \in [Peers -> PeerType]
  BY TypesFacts DEF Base
<1>2. ASSUME NEW q \in Peers, Connect(q) \/ Hangup(q)
      PROVE  peer'[p].said = peer[p].said /\ peer'[p].sent = peer[p].sent
  BY <1>1, <1>2, PlugFacts DEF Connect, Hangup
<1>3. ASSUME NEW q \in Peers, OnTraffic(q)
      PROVE  peer'[p].said = peer[p].said /\ peer'[p].sent = peer[p].sent
  BY <1>1, <1>3, AnswerFacts DEF OnTraffic
<1>4. CASE Authenticate
  BY <1>1, <1>4, AnswerFacts DEF Authenticate
<1>5. ASSUME NEW q \in Peers, NEW f \in Frames, Send(q, f), q # p
      PROVE  peer'[p].said = peer[p].said /\ peer'[p].sent = peer[p].sent
  BY <1>1, <1>5, SendFacts
<1> QED
  BY <1>2, <1>3, <1>4, <1>5, PeerSteps

LEMMA SpokenStays ==
    ASSUME Base, Spoken, [Next]_vars
    PROVE  Spoken'
<1>0. /\ peer \in [Peers -> PeerType] /\ inbox \in [Peers -> Seq(Items)]
      /\ \A p \in Peers : peer[p].sent \in Nat
  BY TypesFacts DEF Base, PeerType
<1>1. SUFFICES ASSUME NEW p \in Peers
               PROVE  /\ peer'[p].sent = 0 => inbox'[p] = <<>>
                      /\ \A i \in DOMAIN inbox'[p] :
                            inbox'[p][i] \in Credentials => inbox'[p][i] = peer'[p].said
                      /\ thr'[p].pc # "none" => peer'[p].said = Right /\ peer'[p].sent > 0
                      /\ acc'.pc = "setup" /\ acc'.p = p => peer'[p].said = Right /\ peer'[p].sent > 0
  BY DEF Spoken, Right
<1>2. /\ peer[p].sent = 0 => inbox[p] = <<>>
      /\ \A i \in DOMAIN inbox[p] : inbox[p][i] \in Credentials => inbox[p][i] = peer[p].said
      /\ thr[p].pc # "none" => peer[p].said = Right /\ peer[p].sent > 0
      /\ acc.pc = "setup" /\ acc.p = p => peer[p].said = Right /\ peer[p].sent > 0
  BY DEF Spoken
<1>3. CASE \E f \in Frames : Send(p, f)
  <2>1. PICK f \in Frames : Send(p, f)
    BY <1>3
  <2>2. /\ peer'[p].sent = peer[p].sent + 1
        /\ peer'[p].said = IF peer[p].sent = 0 THEN f ELSE peer[p].said
    BY <1>0, <2>1, SendFacts
  <2>3. inbox'[p] = Append(inbox[p], f) /\ acc' = acc /\ thr' = thr
    BY <1>0, <2>1 DEF Send
  <2>4. peer[p].sent # 0 => f \notin Credentials
    BY <2>1, Zenon DEF Send
  <2>5. /\ DOMAIN inbox[p] = 1 .. Len(inbox[p]) /\ Len(inbox[p]) \in Nat
        /\ DOMAIN inbox'[p] = 1 .. Len(inbox[p]) + 1
        /\ inbox'[p][Len(inbox[p]) + 1] = f
        /\ \A i \in DOMAIN inbox[p] : inbox'[p][i] = inbox[p][i]
        /\ inbox[p] = <<>> => Len(inbox[p]) = 0
    <3>1. f \in Items
      BY DEF Items
    <3> QED
      BY <1>0, <2>3, <3>1, ReceiveFacts, FrameFacts
  <2>6. \A i \in DOMAIN inbox'[p] : i \in DOMAIN inbox[p] \/ i = Len(inbox[p]) + 1
    BY <2>5
  <2>7. ASSUME NEW i \in DOMAIN inbox'[p], inbox'[p][i] \in Credentials
        PROVE  inbox'[p][i] = peer'[p].said
    <3>1. CASE peer[p].sent = 0
      BY <1>2, <2>2, <2>5, <3>1
    <3>2. CASE peer[p].sent # 0
      BY <1>2, <2>2, <2>4, <2>5, <2>6, <2>7, <3>2
    <3> QED
      BY <3>1, <3>2
  <2> QED
    BY <1>0, <1>2, <2>2, <2>3, <2>7
<1>4. CASE peer'[p].said = peer[p].said /\ peer'[p].sent = peer[p].sent /\ ~\E f \in Frames : Send(p, f)
  <2>1. /\ inbox[p] = <<>> => inbox'[p] = <<>>
        /\ \A i \in DOMAIN inbox'[p] :
              inbox'[p][i] \in Scraps \/ \E j \in DOMAIN inbox[p] : inbox'[p][i] = inbox[p][j]
    <3>1. CASE inbox'[p] = inbox[p]
      BY <3>1
    <3>2. CASE Shortens(p)
      BY <3>2 DEF Shortens
    <3> QED
      BY <1>4, <3>1, <3>2, InboxTyped DEF Shortens
  <2>2. acc'.pc = "setup" /\ acc'.p = p => peer[p].said = Right /\ peer[p].sent > 0
    <3>1. CASE Authenticate /\ acc'.p = acc.p /\ acc'.p = p
      <4>1. /\ inbox[p] # <<>> /\ RequestAuth(Head(inbox[p]))
        BY <3>1 DEF Authenticate
      <4>2. Head(inbox[p]) = inbox[p][1] /\ 1 \in DOMAIN inbox[p]
        BY <1>0, <4>1, TakeFacts
      <4>3. Head(inbox[p]) = Right /\ Right \in {"right", "none"}
        BY <4>1 DEF RequestAuth, Right
      <4>4. Head(inbox[p]) \in Items
        BY <1>0, <4>1, <4>2, FrameFacts
      <4>5. Right \in Credentials
        BY <4>3, <4>4 DEF Items, Frames
      <4> QED
        BY <1>0, <1>2, <4>1, <4>2, <4>3, <4>5
    <3>2. CASE acc' = acc
      BY <1>2, <3>2
    <3>3. Polling.pc = "poll"
      BY DEF Polling
    <3> QED
      BY <3>1, <3>2, <3>3, AcceptTyped DEF Accepts
  <2>3. thr'[p].pc # "none" => peer[p].said = Right /\ peer[p].sent > 0
    <3>1. CASE ThreadStarts
      BY <1>2, <3>1 DEF ThreadStarts, Starts
    <3>2. CASE \E q \in Peers : Walks(q)
      BY <1>2, <3>2 DEF Walks, Moves, Path
    <3> QED
      BY <1>2, <3>1, <3>2, ThreadsTyped
  <2>4. ASSUME NEW i \in DOMAIN inbox'[p], inbox'[p][i] \in Credentials
        PROVE  inbox'[p][i] = peer'[p].said
    <3>1. inbox'[p][i] \notin Scraps
      BY <2>4, ConnectionsAssumption DEF Scraps
    <3> QED
      BY <1>2, <1>4, <2>1, <2>4, <3>1
  <2> QED
    BY <1>2, <1>4, <2>1, <2>2, <2>3, <2>4
<1> QED
  BY <1>3, <1>4, SayingSteps

-----------------------------------------------------------------------------
(* Sessions.                                                               *)

Counted == {"register", "run", "serve", "leave", "conn", "file", "again", "finish"}

(* Whoever has this id has a session, unless an earlier connection with    *)
(* the same id took it along.                                              *)
HasSession(p, fd) ==
    \/ ClientId(p, fd) \in sessions
    \/ \E q \in Peers \ {p} : thr[q].pc = "gone" /\ Id(q) = ClientId(p, fd)

SessionsKept ==
    /\ \A p \in Peers : thr[p].pc \in Counted => HasSession(p, thr[p].fd)
    /\ acc.pc = "setup" => HasSession(acc.p, acc.fd)
    /\ \A s \in sessions :
          \/ acc.pc = "setup" /\ s = ClientId(acc.p, acc.fd)
          \/ \E p \in Peers : s = Id(p) /\ (Live(p) \/ Turned(p))

LEMMA IdsStay ==
    ASSUME Base, [Next]_vars
    PROVE  /\ \A p, fd : ClientId(p, fd)' = ClientId(p, fd)
           /\ \A p \in Peers : thr[p].pc # "none" => thr'[p].fd = thr[p].fd /\ Id(p)' = Id(p)
           /\ \A p \in Peers : thr[p].pc = "gone" => thr'[p].pc = "gone"
<1>1. \A p, fd : ClientId(p, fd)' = ClientId(p, fd)
  BY OtherSteps DEF ClientId
<1>2. ASSUME NEW p \in Peers, thr[p].pc # "none"
      PROVE  thr'[p].fd = thr[p].fd /\ (thr[p].pc = "gone" => thr'[p].pc = "gone")
  <2>1. CASE ThreadStarts
    BY <1>2, <2>1 DEF ThreadStarts, Starts
  <2>2. CASE \E q \in Peers : Walks(q)
    BY <1>2, <2>2 DEF Walks, Moves, Path
  <2> QED
    BY <2>1, <2>2, ThreadsTyped
<1>3. ASSUME NEW p \in Peers, thr[p].pc # "none"
      PROVE  Id(p)' = Id(p)
  BY <1>2, <1>3, OtherSteps DEF Id, ClientId
<1> QED
  BY <1>1, <1>2, <1>3

LEMMA SessionIsKept ==
    ASSUME Base, [Next]_vars, NEW p \in Peers, NEW fd, HasSession(p, fd), ~Finish(p)
    PROVE  HasSession(p, fd)'
<1>1. CASE ClientId(p, fd) \in sessions /\ ClientId(p, fd) \in sessions'
  BY <1>1, IdsStay DEF HasSession
<1>2. CASE ClientId(p, fd) \in sessions /\ ClientId(p, fd) \notin sessions'
  <2>1. PICK q \in Peers : Finish(q) /\ sessions' = sessions \ {Id(q)}
    BY <1>2, SessionSteps
  <2>2. q # p /\ Id(q) = ClientId(p, fd) /\ thr[q].pc = "finish"
    BY <1>2, <2>1 DEF Finish, At
  <2>3. thr'[q].pc = "gone"
    BY <2>1, GoToFacts, TypesFacts DEF Finish, Base, ThreadPc, Moves
  <2>4. Id(q)' = Id(q)
    BY <2>2, IdsStay
  <2> QED
    BY <2>2, <2>3, <2>4, IdsStay DEF HasSession
<1>3. CASE \E q \in Peers \ {p} : thr[q].pc = "gone" /\ Id(q) = ClientId(p, fd)
  <2>1. PICK q \in Peers \ {p} : thr[q].pc = "gone" /\ Id(q) = ClientId(p, fd)
    BY <1>3
  <2>2. thr'[q].pc = "gone" /\ Id(q)' = Id(q)
    BY <2>1, IdsStay
  <2> QED
    BY <2>1, <2>2, IdsStay DEF HasSession
<1> QED
  BY <1>1, <1>2, <1>3 DEF HasSession

LEMMA SessionsStay ==
    ASSUME Base, SessionsKept, [Next]_vars
    PROVE  SessionsKept'
<1>0. thr \in [Peers -> ThreadType]
  BY TypesFacts DEF Base
<1>1. ASSUME NEW p \in Peers, thr'[p].pc \in Counted
      PROVE  HasSession(p, thr[p].fd)'
  <2>1. ~Finish(p)
    <3>1. ASSUME Finish(p)
          PROVE  thr'[p].pc = "gone"
      BY <1>0, <3>1, GoToFacts DEF Finish, ThreadPc, Moves
    <3> QED
      BY <1>1, <3>1 DEF Counted
  <2>2. PICK n : n = thr'[p].fd
    OBVIOUS
  <2>3. HasSession(p, n)
    <3>1. CASE thr[p].pc \in Counted
      <4>1. n = thr[p].fd
        BY <2>2, <3>1, IdsStay DEF Counted
      <4> QED
        BY <3>1, <4>1 DEF SessionsKept
    <3>2. CASE thr[p].pc \notin Counted
      <4>1. ThreadStarts
        <5>1. ASSUME NEW q \in Peers, Walks(q)
              PROVE  thr[p].pc \in Counted
          BY <1>1, <5>1 DEF Walks, Moves, Path, Counted
        <5> QED
          BY <1>1, <3>2, <5>1, ThreadsTyped
      <4>2. p = acc.p /\ n = acc.fd /\ acc.pc = "setup"
        BY <1>1, <2>2, <3>2, <4>1 DEF ThreadStarts, Starts
      <4> QED
        BY <4>2 DEF SessionsKept
    <3> QED
      BY <3>1, <3>2
  <2>4. HasSession(p, n)'
    BY <2>1, <2>3, SessionIsKept
  <2> QED
    BY <2>2, <2>4
<1>2. ASSUME acc'.pc = "setup"
      PROVE  HasSession(acc.p, acc.fd)'
  <2>1. /\ acc' = acc \/ Authenticate
        /\ acc'.p = acc.p /\ acc'.fd = acc.fd
    <3>1. Polling.pc = "poll"
      BY DEF Polling
    <3> QED
      BY <1>2, <3>1, AcceptTyped DEF Accepts
  <2>0. PICK n : n = acc.fd
    OBVIOUS
  <2>2. PICK p \in Peers : p = acc.p /\ n = acc.fd /\ thr[p].pc = "none"
    BY <1>2, <2>0, <2>1 DEF Base, Placed, Busy, Authenticate
  <2>3. CASE Authenticate
    <3>1. ClientId(p, n) \in sessions'
      BY <2>2, <2>3 DEF Authenticate
    <3>2. ClientId(p, n)' \in sessions'
      BY <3>1, OtherSteps DEF ClientId
    <3> QED
      BY <2>1, <2>2, <3>2 DEF HasSession
  <2>4. CASE acc' = acc
    <3>1. HasSession(p, n) /\ ~Finish(p)
      BY <1>2, <2>2, <2>4 DEF SessionsKept, Finish, At
    <3>2. HasSession(p, n)'
      BY <3>1, SessionIsKept
    <3> QED
      BY <2>1, <2>2, <3>2
  <2> QED
    BY <2>1, <2>3, <2>4
<1>3. ASSUME NEW s \in sessions'
      PROVE  \/ acc'.pc = "setup" /\ s = ClientId(acc.p, acc.fd)'
             \/ \E p \in Peers : s = Id(p)' /\ (Live(p)' \/ Turned(p)')
  <2>1. CASE Authenticate /\ s = ClientId(acc.p, acc.fd)
    <3>1. acc'.pc = "setup" /\ acc'.p = acc.p /\ acc'.fd = acc.fd
      <4>1. acc.pc = "auth" /\ acc'.pc = "setup"
        BY <2>1, TypesFacts DEF Authenticate, Base
      <4> QED
        BY <4>1, AcceptTyped DEF Polling, Accepts
    <3> QED
      BY <2>1, <3>1, OtherSteps DEF ClientId
  <2>2. CASE s \in sessions /\ acc.pc = "setup" /\ s = ClientId(acc.p, acc.fd)
    <3>1. CASE acc' = acc
      BY <2>2, <3>1, OtherSteps DEF ClientId
    <3>2. CASE Setup
      <4>1. ThreadStarts
        BY <3>2, ThreadsTyped
      <4>2. PICK p \in Peers : p = acc.p /\ thr'[p].fd = acc.fd /\ thr'[p].pc \in {"register", "failed"}
        BY <4>1 DEF ThreadStarts, Starts
      <4>3. s = Id(p)'
        BY <2>2, <4>2, OtherSteps DEF Id, ClientId
      <4>4. Live(p)' \/ Turned(p)'
        BY <4>2 DEF Live, Turned
      <4> QED
        BY <4>3, <4>4
    <3> QED
      BY <2>2, <3>1, <3>2, AcceptSteps DEF AcceptOne, Authenticate, Reject, AcceptEnds
  <2>3. CASE s \in sessions /\ \E p \in Peers : s = Id(p) /\ (Live(p) \/ Turned(p))
    <3>1. PICK p \in Peers : s = Id(p) /\ (Live(p) \/ Turned(p))
      BY <2>3
    <3>2. thr[p].pc \notin {"none", "gone"}
      BY <3>1 DEF Live, Turned
    <3>3. Id(p)' = Id(p)
      BY <3>2, IdsStay
    <3>4. CASE Finish(p)
      <4>1. sessions' = sessions \ {Id(p)}
        BY <3>4 DEF Finish
      <4> QED
        BY <3>1, <4>1
    <3>5. CASE ~Finish(p)
      <4>1. thr'[p].pc \notin {"none", "gone"}
        <5>1. CASE ThreadStarts
          BY <3>2, <5>1 DEF ThreadStarts, Starts
        <5>2. ASSUME NEW q \in Peers, Walks(q)
              PROVE  thr'[p].pc \notin {"none", "gone"}
          <6>1. CASE q # p
            BY <3>2, <5>2, <6>1 DEF Walks, Moves
          <6>2. CASE q = p
            <7>1. thr[p].pc # "finish" \/ thr'[p].pc = "finish"
              BY <3>5, ThreadsTyped
            <7> QED
              BY <5>2, <6>2, <7>1 DEF Walks, Moves, Path
          <6> QED
            BY <6>1, <6>2
        <5> QED
          BY <3>2, <5>1, <5>2, ThreadsTyped
      <4>2. Live(p)' \/ Turned(p)'
        BY <4>1 DEF Live, Turned
      <4> QED
        BY <3>1, <3>3, <4>2
    <3> QED
      BY <3>4, <3>5
  <2>4. s \in sessions \/ (Authenticate /\ s = ClientId(acc.p, acc.fd))
    BY <1>3, SessionSteps
  <2> QED
    BY <2>1, <2>2, <2>3, <2>4 DEF SessionsKept
<1> QED
  BY <1>1, <1>2, <1>3 DEF SessionsKept

-----------------------------------------------------------------------------
(* Counters.                                                               *)

(* Each action of a thread, as a move.                                     *)
LEMMA MoveFacts ==
    ASSUME Base, NEW p \in Peers
    PROVE  /\ RegisterThread(p) => thr[p].pc = "register"
                  /\ Moves(p, IF count >= MaxThreads THEN "refused" ELSE "run")
                  /\ thr'[p].err = thr[p].err
           /\ Collect(p) => thr[p].pc = "refused" /\ Moves(p, "collected")
           /\ ReadSync(p) => thr[p].pc = "run" /\ Moves(p, "serve")
                  /\ thr'[p].from = table[thr[p].dup] /\ thr'[p].err = thr[p].err
           /\ OnTraffic(p) => thr[p].pc = "serve" /\ Moves(p, "run")
           /\ ReadEnds(p) => thr[p].pc = "run" /\ Moves(p, "leave")
           /\ Unregister(p) => thr[p].pc = "leave"
                  /\ Moves(p, IF Id(p) \in clients THEN "conn" ELSE "again")
           /\ CloseConn(p) => thr[p].pc = "conn" /\ Moves(p, "file")
                  /\ (thr'[p].err <=> table[thr[p].dup] = Nobody)
           /\ CloseFile(p) => thr[p].pc = "file" /\ Moves(p, "again")
           /\ CloseAgain(p) => thr[p].pc = "again" /\ Moves(p, "finish")
           /\ Finish(p) => thr[p].pc = "finish" /\ Moves(p, "gone")
<1>0. /\ thr \in [Peers -> ThreadType] /\ table \in [Numbers -> Peers \cup {Nobody}]
      /\ thr[p].pc \notin {"none", "failed"} => thr[p].dup \in Numbers
  BY TypesFacts DEF Base, Numbered
<1>1. \A w \in ThreadPc : GoTo(p, w) => Moves(p, w) /\ thr'[p].from = thr[p].from
                                        /\ thr'[p].err = thr[p].err
  BY <1>0, GoToFacts
<1>2. /\ "run" \in ThreadPc /\ "refused" \in ThreadPc /\ "collected" \in ThreadPc
      /\ "leave" \in ThreadPc /\ "conn" \in ThreadPc /\ "again" \in ThreadPc
      /\ "finish" \in ThreadPc /\ "gone" \in ThreadPc
  BY DEF ThreadPc
<1>3. ASSUME ReadSync(p)
      PROVE  thr[p].pc = "run" /\ Moves(p, "serve")
             /\ thr'[p].from = table[thr[p].dup] /\ thr'[p].err = thr[p].err
  <2>1. thr[p].pc = "run" /\ table[thr[p].dup] \in Peers
    BY <1>0, <1>3 DEF ReadSync, At
  <2>2. thr' = [thr EXCEPT ![p].pc = "serve", ![p].from = table[thr[p].dup]]
    BY <1>3 DEF ReadSync
  <2> QED
    BY <1>0, <2>1, <2>2, ReadFacts
<1>4. ASSUME CloseConn(p)
      PROVE  thr[p].pc = "conn" /\ Moves(p, "file")
             /\ (thr'[p].err <=> table[thr[p].dup] = Nobody)
  <2>1. thr[p].pc = "conn"
        /\ thr' = [thr EXCEPT ![p].pc = "file", ![p].err = table[thr[p].dup] = Nobody]
    BY <1>4 DEF CloseConn, At
  <2>2. PICK b \in BOOLEAN : b = (table[thr[p].dup] = Nobody)
    OBVIOUS
  <2>3. thr' = [thr EXCEPT ![p].pc = "file", ![p].err = b]
    BY <2>1, <2>2
  <2>4. Moves(p, "file") /\ thr'[p].err = b
    BY <1>0, <2>3, CloseConnFacts
  <2> QED
    BY <2>1, <2>2, <2>4
<1>5. RegisterThread(p) => thr[p].pc = "register"
                  /\ Moves(p, IF count >= MaxThreads THEN "refused" ELSE "run")
                  /\ thr'[p].err = thr[p].err
  BY <1>1, <1>2 DEF RegisterThread, At
<1>6. Unregister(p) => thr[p].pc = "leave"
                  /\ Moves(p, IF Id(p) \in clients THEN "conn" ELSE "again")
  BY <1>1, <1>2 DEF Unregister, At
<1>7. /\ Collect(p) => thr[p].pc = "refused" /\ Moves(p, "collected")
      /\ OnTraffic(p) => thr[p].pc = "serve" /\ Moves(p, "run")
      /\ ReadEnds(p) => thr[p].pc = "run" /\ Moves(p, "leave")
      /\ CloseFile(p) => thr[p].pc = "file" /\ Moves(p, "again")
      /\ CloseAgain(p) => thr[p].pc = "again" /\ Moves(p, "finish")
      /\ Finish(p) => thr[p].pc = "finish" /\ Moves(p, "gone")
  BY <1>1, <1>2 DEF Collect, OnTraffic, ReadEnds, CloseFile, CloseAgain, Finish, At
<1> QED
  BY <1>3, <1>4, <1>5, <1>6, <1>7

(* Setup either starts a thread, over a duplicate, or closes the socket.   *)
LEMMA SetupMoves ==
    ASSUME Base, Setup, NEW p, p = acc.p
    PROVE  /\ \A q \in Peers \ {p} : thr'[q] = thr[q]
           /\ thr'[p].fd = acc.fd
           /\ \/ /\ thr'[p].pc = "register" /\ ~thr'[p].err /\ active' = active + 1
                 /\ thr'[p].dup \in Dups /\ table[acc.fd] = p /\ stolen' = stolen
                 /\ table' = IF ClientId(p, acc.fd) \in clients THEN table
                             ELSE [table EXCEPT ![thr'[p].dup] = p]
              \/ /\ thr'[p].pc = "failed" /\ active' = active
                 /\ Closing(p, {acc.fd})
<1>1. p \in Peers /\ thr \in [Peers -> ThreadType]
  BY SetupFacts, TypesFacts DEF Base
<1>2. PICK n \in Numbers : n = acc.fd
  BY SetupFacts
<1>3. CASE /\ table[acc.fd] = acc.p
           /\ \E dup \in Dups :
                 /\ table' = IF ClientId(acc.p, acc.fd) \in clients THEN table
                             ELSE [table EXCEPT ![dup] = acc.p]
                 /\ thr' = [thr EXCEPT ![acc.p] = NewThread(acc.fd, dup)]
           /\ active' = active + 1 /\ stolen' = stolen
  <2>1. PICK dup \in Dups :
           /\ table' = IF ClientId(acc.p, acc.fd) \in clients THEN table
                       ELSE [table EXCEPT ![dup] = acc.p]
           /\ thr' = [thr EXCEPT ![acc.p] = NewThread(acc.fd, dup)]
    BY <1>3
  <2>2. PICK m \in Numbers \cup {0}, r \in Peers : m = dup /\ r = p
    BY <1>1, DupsAreNumbers
  <2>3. thr' = [thr EXCEPT ![r] = NewThread(n, m)]
    BY <1>2, <2>1, <2>2
  <2>4. /\ thr'[r].pc = "register" /\ thr'[r].fd = n /\ thr'[r].dup = m /\ ~thr'[r].err
        /\ \A q \in Peers \ {r} : thr'[q] = thr[q]
    <3>1. thr \in [Peers -> ThreadType]
      BY <1>1
    <3> HIDE <1>1, <1>2, <2>2
    <3> QED
      BY <2>3, <3>1, BeginFacts
  <2> QED
    BY <1>2, <1>3, <2>1, <2>2, <2>4
<1>4. CASE /\ Closing(acc.p, {acc.fd})
           /\ thr' = [thr EXCEPT ![acc.p].pc = "failed", ![acc.p].fd = acc.fd]
           /\ active' = active
  <2>1. thr' = [thr EXCEPT ![p].pc = "failed", ![p].fd = n]
    BY <1>2, <1>4
  <2>2. /\ thr'[p].pc = "failed" /\ thr'[p].fd = n
        /\ \A q \in Peers \ {p} : thr'[q] = thr[q]
    BY <1>1, <2>1, FailFacts
  <2> QED
    BY <1>2, <1>4, <2>2
<1> QED
  BY <1>3, <1>4, SetupFacts

With(pcs) == {p \in Peers : thr[p].pc \in pcs}
Size(pcs) == Cardinality(With(pcs))

(* Threads that have been registered, and those numIOThreads stands for.   *)
Entered == {"run", "serve", "leave", "conn", "file", "again", "finish", "gone"}
OnCount == {"run", "serve", "leave", "conn", "file"}

Counting ==
    /\ active = Size(Counted)
    /\ count \in Nat /\ Size(OnCount) <= count /\ count <= Size(Entered)

LEMMA SizeFacts ==
    ASSUME NEW pcs
    PROVE  IsFiniteSet(With(pcs)) /\ Size(pcs) \in Nat /\ Size(pcs) <= Cardinality(Peers)
<1>1. With(pcs) \subseteq Peers /\ IsFiniteSet(Peers)
  BY ConnectionsAssumption DEF With
<1> QED
  BY <1>1, FS_Subset, FS_CardinalityType DEF Size

LEMMA SizeMoves ==
    ASSUME NEW p \in Peers, NEW w, NEW pcs,
           thr'[p].pc = w, \A q \in Peers \ {p} : thr'[q] = thr[q]
    PROVE  /\ (w \in pcs <=> thr[p].pc \in pcs) => With(pcs)' = With(pcs) /\ Size(pcs)' = Size(pcs)
           /\ w \in pcs /\ thr[p].pc \notin pcs =>
                  With(pcs)' = With(pcs) \cup {p} /\ Size(pcs)' = Size(pcs) + 1
           /\ w \notin pcs /\ thr[p].pc \in pcs =>
                  With(pcs)' = With(pcs) \ {p} /\ Size(pcs)' = Size(pcs) - 1 /\ Size(pcs) > 0
<1>0. IsFiniteSet(With(pcs)) /\ Size(pcs) \in Nat /\ Cardinality(With(pcs)) = Size(pcs)
  BY SizeFacts DEF Size
<1>1. ASSUME w \in pcs <=> thr[p].pc \in pcs
      PROVE  With(pcs)' = With(pcs) /\ Size(pcs)' = Size(pcs)
  <2>1. With(pcs)' = With(pcs)
    BY <1>1 DEF With
  <2> QED
    BY <2>1 DEF Size
<1>2. ASSUME w \in pcs, thr[p].pc \notin pcs
      PROVE  With(pcs)' = With(pcs) \cup {p} /\ Size(pcs)' = Size(pcs) + 1
  <2>1. With(pcs)' = With(pcs) \cup {p} /\ p \notin With(pcs)
    BY <1>2 DEF With
  <2>2. Cardinality(With(pcs) \cup {p}) = Cardinality(With(pcs)) + 1
    BY <1>0, <2>1, FS_AddElement
  <2>3. Size(pcs)' = Cardinality(With(pcs)')
    BY DEF Size
  <2> QED
    BY <1>0, <2>1, <2>2, <2>3
<1>3. ASSUME w \notin pcs, thr[p].pc \in pcs
      PROVE  With(pcs)' = With(pcs) \ {p} /\ Size(pcs)' = Size(pcs) - 1 /\ Size(pcs) > 0
  <2>1. With(pcs)' = With(pcs) \ {p} /\ p \in With(pcs)
    BY <1>3 DEF With
  <2>2. Cardinality(With(pcs) \ {p}) = Cardinality(With(pcs)) - 1
    BY <1>0, <2>1, FS_RemoveElement
  <2>3. Size(pcs)' = Cardinality(With(pcs)')
    BY DEF Size
  <2>4. Cardinality(With(pcs)) # 0
    BY <1>0, <2>1, FS_EmptySet
  <2> QED
    BY <1>0, <2>1, <2>2, <2>3, <2>4
<1> QED
  BY <1>1, <1>2, <1>3

(* The steps of clients, of the process and of the accept goroutine that   *)
(* change neither tables nor threads, and all others.                      *)
LEMMA Steps ==
    ASSUME [Next]_vars
    PROVE  \/ UNCHANGED <<table, acc, thr, clients, count, active>>
           \/ AcceptOne \/ Reject \/ Setup \/ Authenticate \/ AcceptEnds
           \/ \E p \in Peers : \/ RegisterThread(p) \/ Collect(p) \/ ReadSync(p) \/ OnTraffic(p)
                               \/ ReadEnds(p) \/ Unregister(p) \/ CloseConn(p) \/ CloseFile(p)
                               \/ CloseAgain(p) \/ Finish(p)
<1>1. CASE \E p \in Peers : Connect(p) \/ Hangup(p) \/ \E f \in Frames : Send(p, f)
  BY <1>1, Zenon DEF Connect, Hangup, Send, books
<1>2. CASE AcceptFails \/ Signal \/ Exit \/ UNCHANGED vars
  BY <1>2 DEF AcceptFails, Signal, Exit, books, vars
<1>3. CASE Accepting
  BY <1>2, <1>3 DEF Accepting
<1>4. CASE \E p \in Peers : ReadOn(p)
  BY <1>4, Zenon DEF ReadOn, books
<1>5. CASE \E p \in Peers : Reading(p) \/ Leaving(p) \/ Collect(p)
  BY <1>4, <1>5, Zenon DEF Reading, Leaving
<1> QED
  BY <1>1, <1>2, <1>3, <1>5 DEF Next

LEMMA Untouched ==
    /\ AcceptOne \/ Reject => UNCHANGED <<thr, clients, count, active>>
    /\ Authenticate \/ AcceptEnds => UNCHANGED <<table, thr, clients, count, active>>
    /\ \A p \in Peers : ReadSync(p) \/ OnTraffic(p) \/ ReadEnds(p)
                           => UNCHANGED <<table, acc, clients, count, active>>
    /\ \A p \in Peers : Collect(p) \/ CloseConn(p) \/ CloseAgain(p)
                           => UNCHANGED <<clients, count, active>>
    /\ \A p \in Peers : Unregister(p) => UNCHANGED <<table, acc, count, active>>
    /\ \A p \in Peers : Finish(p) => UNCHANGED <<table, acc, clients, count>>
<1>1. AcceptOne \/ Reject => UNCHANGED <<thr, clients, count, active>>
  BY DEF AcceptOne, Reject, books
<1>2. Authenticate \/ AcceptEnds => UNCHANGED <<table, thr, clients, count, active>>
  BY DEF Authenticate, AcceptEnds, books
<1>3. ASSUME NEW p \in Peers, ReadSync(p) \/ OnTraffic(p) \/ ReadEnds(p)
      PROVE  UNCHANGED <<table, acc, clients, count, active>>
  BY <1>3 DEF ReadSync, OnTraffic, ReadEnds, books
<1>4. ASSUME NEW p \in Peers, Collect(p) \/ CloseConn(p) \/ CloseAgain(p)
      PROVE  UNCHANGED <<clients, count, active>>
  BY <1>4 DEF Collect, CloseConn, CloseAgain, books
<1>5. ASSUME NEW p \in Peers, Unregister(p) PROVE UNCHANGED <<table, acc, count, active>>
  BY <1>5 DEF Unregister
<1>6. ASSUME NEW p \in Peers, Finish(p) PROVE UNCHANGED <<table, acc, clients, count>>
  BY <1>6 DEF Finish
<1> QED
  BY <1>1, <1>2, <1>3, <1>4, <1>5, <1>6

LEMMA CountSteps ==
    ASSUME [Next]_vars
    PROVE  \/ UNCHANGED <<count, active, thr>>
           \/ Setup
           \/ \E p \in Peers : \/ RegisterThread(p) \/ CloseFile(p) \/ Finish(p)
           \/ /\ UNCHANGED <<count, active>>
              /\ \E p \in Peers : \/ Collect(p) \/ ReadSync(p) \/ OnTraffic(p) \/ ReadEnds(p)
                                  \/ Unregister(p) \/ CloseConn(p) \/ CloseAgain(p)
  BY Steps, Untouched

LEMMA CountingStays ==
    ASSUME Base, Counting, [Next]_vars
    PROVE  Counting'
<1>0. /\ active = Size(Counted) /\ count \in Nat
      /\ Size(OnCount) <= count /\ count <= Size(Entered)
      /\ Size(Counted) \in Nat /\ Size(OnCount) \in Nat /\ Size(Entered) \in Nat
  BY SizeFacts DEF Counting
<1>1. SUFFICES /\ active' = Size(Counted)'
               /\ count' \in Nat /\ Size(OnCount)' <= count' /\ count' <= Size(Entered)'
  BY DEF Counting
<1>2. CASE UNCHANGED <<count, active, thr>>
  BY <1>0, <1>2 DEF Size, With
<1>3. CASE Setup
  <2>1. PICK p \in Peers : p = acc.p /\ thr[p].pc = "none"
    BY <1>3, SetupFacts
  <2>2. \A q \in Peers \ {p} : thr'[q] = thr[q]
    BY <1>3, <2>1, ThreadsTyped DEF ThreadStarts, Starts
  <2>3. count' = count
    BY <1>3 DEF Setup
  <2>4. \/ thr'[p].pc = "register" /\ active' = active + 1
        \/ thr'[p].pc = "failed" /\ active' = active
    BY <1>3, <2>1, SetupMoves
  <2> QED
    BY <1>0, <2>1, <2>2, <2>3, <2>4, SizeMoves DEF Counted, OnCount, Entered
<1>4. ASSUME NEW p \in Peers, RegisterThread(p)
      PROVE  /\ active' = Size(Counted)'
             /\ count' \in Nat /\ Size(OnCount)' <= count' /\ count' <= Size(Entered)'
  <2>1. thr[p].pc = "register"
        /\ Moves(p, IF count >= MaxThreads THEN "refused" ELSE "run")
    BY <1>4, MoveFacts
  <2>2. CASE count >= MaxThreads
    <3>1. active' = active - 1 /\ count' = count
      BY <1>4, <2>2 DEF RegisterThread
    <3>2. thr'[p].pc = "refused" /\ \A q \in Peers \ {p} : thr'[q] = thr[q]
      BY <2>1, <2>2 DEF Moves
    <3> QED
      BY <1>0, <2>1, <3>1, <3>2, SizeMoves DEF Counted, OnCount, Entered
  <2>3. CASE ~(count >= MaxThreads)
    <3>1. active' = active /\ count' = count + 1
      BY <1>4, <2>3 DEF RegisterThread
    <3>2. thr'[p].pc = "run" /\ \A q \in Peers \ {p} : thr'[q] = thr[q]
      BY <2>1, <2>3 DEF Moves
    <3> QED
      BY <1>0, <2>1, <3>1, <3>2, SizeMoves DEF Counted, OnCount, Entered
  <2> QED
    BY <2>2, <2>3
<1>5. ASSUME NEW p \in Peers, CloseFile(p)
      PROVE  /\ active' = Size(Counted)'
             /\ count' \in Nat /\ Size(OnCount)' <= count' /\ count' <= Size(Entered)'
  <2>1. thr[p].pc = "file" /\ thr'[p].pc = "again" /\ \A q \in Peers \ {p} : thr'[q] = thr[q]
    BY <1>5, MoveFacts DEF Moves
  <2>2. active' = active /\ count' \in {count, count - 1}
    BY <1>5 DEF CloseFile
  <2> QED
    BY <1>0, <2>1, <2>2, SizeMoves DEF Counted, OnCount, Entered
<1>6. ASSUME NEW p \in Peers, Finish(p)
      PROVE  /\ active' = Size(Counted)'
             /\ count' \in Nat /\ Size(OnCount)' <= count' /\ count' <= Size(Entered)'
  <2>1. thr[p].pc = "finish" /\ thr'[p].pc = "gone" /\ \A q \in Peers \ {p} : thr'[q] = thr[q]
    BY <1>6, MoveFacts DEF Moves
  <2>2. active' = active - 1 /\ count' = count
    BY <1>6 DEF Finish
  <2> QED
    BY <1>0, <2>1, <2>2, SizeMoves DEF Counted, OnCount, Entered
<1>7. ASSUME UNCHANGED <<count, active>>, NEW p \in Peers,
             \/ Collect(p) \/ ReadSync(p) \/ OnTraffic(p) \/ ReadEnds(p)
             \/ Unregister(p) \/ CloseConn(p) \/ CloseAgain(p)
      PROVE  /\ active' = Size(Counted)'
             /\ count' \in Nat /\ Size(OnCount)' <= count' /\ count' <= Size(Entered)'
  <2>1. /\ <<thr[p].pc, thr'[p].pc>> \in
               { <<"refused", "collected">>, <<"run", "serve">>, <<"serve", "run">>,
                 <<"run", "leave">>, <<"leave", "conn">>, <<"leave", "again">>,
                 <<"conn", "file">>, <<"again", "finish">> }
        /\ \A q \in Peers \ {p} : thr'[q] = thr[q]
    BY <1>7, MoveFacts DEF Moves
  <2>2. /\ thr'[p].pc \in Counted <=> thr[p].pc \in Counted
        /\ thr'[p].pc \in Entered <=> thr[p].pc \in Entered
        /\ thr'[p].pc \in OnCount => thr[p].pc \in OnCount
    BY <2>1 DEF Counted, Entered, OnCount
  <2>3. Size(Counted)' = Size(Counted) /\ Size(Entered)' = Size(Entered)
    BY <2>1, <2>2, SizeMoves
  <2>4. Size(OnCount)' <= Size(OnCount) /\ Size(OnCount)' \in Nat
    BY <1>0, <2>1, <2>2, SizeMoves
  <2> QED
    BY <1>0, <1>7, <2>3, <2>4
<1> QED
  BY <1>2, <1>3, <1>4, <1>5, <1>6, <1>7, CountSteps

-----------------------------------------------------------------------------
(* As long as no number was closed under its connection.                   *)

Holding == {"register", "run", "serve", "leave", "conn"}

(* A thread that has not closed its numbers has them for itself.           *)
Holds(p) ==
    /\ thr[p].pc \in Holding =>
          table[thr[p].fd] = p /\ table[thr[p].dup] = p /\ thr[p].fd # thr[p].dup
    /\ thr[p].pc = "file" => table[thr[p].fd] = p /\ ~thr[p].err
NumbersOwn == (Busy => table[acc.fd] = acc.p) /\ \A p \in Peers : Holds(p)

(* connectedClients and numIOThreads agree with the threads.               *)
BooksOwn ==
    /\ clients = {Id(p) : p \in With(InMap)}
    /\ count = Size(OnCount) /\ count <= MaxThreads

(* A connection whose client waits for each answer has read no more frames *)
(* than it has been sent, has answered no more than it has read, and has   *)
(* at most one to answer.                                                  *)
Fits(p) ==
    /\ thr[p].pc = "serve" => thr[p].from = p
    /\ p \notin Pipelining =>
          /\ thr[p].pc = "serve" => peer[p].got + Len(inbox[p]) + 1 <= peer[p].sent
          /\ peer[p].got + Len(inbox[p]) <= peer[p].sent
          /\ peer[p].sent <= peer[p].got + 1

Own == stolen = {} => NumbersOwn /\ BooksOwn /\ \A p \in Peers : Fits(p)

LEMMA OwnSteps ==
    ASSUME [Next]_vars
    PROVE  \/ AcceptOne \/ Reject \/ Setup
           \/ \E p \in Peers : \/ RegisterThread(p) \/ Collect(p) \/ CloseConn(p)
                               \/ CloseFile(p) \/ CloseAgain(p)
           \/ /\ UNCHANGED <<table, thr, clients, count>>
              /\ UNCHANGED acc \/ Authenticate \/ AcceptEnds
           \/ /\ UNCHANGED <<table, acc, count>>
              /\ \E p \in Peers : \/ ReadSync(p) \/ OnTraffic(p) \/ ReadEnds(p)
                                  \/ Unregister(p) \/ Finish(p)
  BY Steps, Untouched

LEMMA ClosingSpares ==
    ASSUME Base, NEW p, NEW ns \in SUBSET Numbers, Closing(p, ns), stolen' = {},
           NEW q \in Peers, q # p
    PROVE  \A n \in Numbers : table[n] = q => table'[n] = q
<1>1. /\ table \in [Numbers -> Peers \cup {Nobody}] /\ stolen \subseteq Peers
      /\ Nobody \notin Peers
  BY TypesFacts, ConnectionsAssumption DEF Base
<1>2. /\ \A n \in Numbers \ ns : table'[n] = table[n]
      /\ \A n \in ns : table[n] \in {p, Nobody}
  BY <1>1, ClosingFacts
<1> QED
  BY <1>1, <1>2

LEMMA HoldsStill ==
    ASSUME Base, NEW q \in Peers, Holds(q), thr'[q] = thr[q],
           \A n \in Numbers : table[n] = q => table'[n] = q
    PROVE  Holds(q)'
<1>1. thr[q].pc # "none" => thr[q].fd \in Numbers
  BY DEF Base, Numbered
<1>2. thr[q].pc \notin {"none", "failed"} => thr[q].dup \in Numbers
  BY DEF Base, Numbered
<1> QED
  BY <1>1, <1>2 DEF Holds, Holding

(* GetThread finds no thread for a connection that owns its number.        *)
LEMMA NothingToReuse ==
    ASSUME Base, NumbersOwn, BooksOwn, Busy
    PROVE  ClientId(acc.p, acc.fd) \notin clients
<1>1. SUFFICES ASSUME NEW q \in With(InMap), ClientId(acc.p, acc.fd) = Id(q)
               PROVE  FALSE
  BY DEF BooksOwn
<1>2. q \in Peers /\ thr[q].pc \in InMap /\ thr[q].fd = acc.fd
  BY <1>1 DEF With, Id, ClientId
<1>3. table[thr[q].fd] = q
  BY <1>2 DEF NumbersOwn, Holds, Holding, InMap
<1>4. q = acc.p
  BY <1>2, <1>3 DEF NumbersOwn
<1>5. thr[q].pc = "none"
  BY <1>4 DEF Base, Placed
<1> QED
  BY <1>2, <1>5 DEF InMap

LEMMA NumbersStayOwn ==
    ASSUME Base, NumbersOwn, BooksOwn, [Next]_vars, stolen' = {}
    PROVE  NumbersOwn'
<1>0. /\ table \in [Numbers -> Peers \cup {Nobody}] /\ stolen \subseteq Peers
      /\ Nobody \notin Peers /\ Numbers \subseteq Nat
      /\ \A q \in Peers : Holds(q)
  BY TypesFacts, ConnectionsAssumption DEF Base, NumbersOwn
<1>1. CASE AcceptOne
  <2>1. PICK p \in Peers, fd \in Numbers :
           /\ acc'.p = p /\ acc'.fd = fd /\ table[fd] = Nobody
           /\ table' = [table EXCEPT ![fd] = p] /\ thr' = thr
    <3>1. Accepts
      <4>1. acc'.pc = "auth" /\ acc.pc = "poll"
        BY <1>1 DEF AcceptOne
      <4>2. Polling.pc = "poll"
        BY DEF Polling
      <4> QED
        BY <4>1, <4>2, AcceptTyped
    <3>2. /\ acc'.p = Head(backlog) /\ acc'.fd = Lowest(Free) /\ thr' = thr
          /\ table' = [table EXCEPT ![Lowest(Free)] = Head(backlog)]
      BY <1>1 DEF AcceptOne
    <3> QED
      BY <3>1, <3>2 DEF Accepts
  <2>2. \A q \in Peers : \A n \in Numbers : table[n] = q => table'[n] = q
    BY <1>0, <2>1
  <2>3. \A q \in Peers : Holds(q)'
    BY <1>0, <2>1, <2>2, HoldsStill
  <2> QED
    BY <1>0, <2>1, <2>3 DEF NumbersOwn, Busy
<1>2. CASE Reject
  <2>1. PICK p \in Peers, fd \in Numbers : p = acc.p /\ fd = acc.fd /\ thr[p].pc = "none"
    BY <1>2 DEF Reject, Base, Placed, Busy
  <2>2. Closing(p, {fd}) /\ thr' = thr /\ ~Busy'
    BY <1>2, <2>1 DEF Reject, Polling, Busy
  <2>3. \A q \in Peers \ {p} : Holds(q)'
    BY <1>0, <2>2, ClosingSpares, HoldsStill
  <2>4. Holds(p)'
    BY <2>1, <2>2 DEF Holds, Holding
  <2> QED
    BY <2>2, <2>3, <2>4 DEF NumbersOwn
<1>3. CASE Setup
  <2>1. PICK p \in Peers, fd \in Numbers : p = acc.p /\ fd = acc.fd /\ thr[p].pc = "none" /\ Busy
    BY <1>3, SetupFacts DEF Setup, Busy
  <2>2. acc' = Polling /\ \A q \in Peers \ {p} : thr'[q] = thr[q]
    BY <1>3, <2>1, SetupMoves DEF Setup
  <2>3. ~Busy'
    BY <2>2 DEF Polling, Busy
  <2>4. CASE thr'[p].pc = "failed" /\ Closing(p, {fd})
    <3>1. \A q \in Peers \ {p} : Holds(q)'
      BY <1>0, <2>2, <2>4, ClosingSpares, HoldsStill
    <3>2. Holds(p)'
      BY <2>4 DEF Holds, Holding
    <3> QED
      BY <2>3, <3>1, <3>2 DEF NumbersOwn
  <2>5. CASE thr'[p].pc = "register"
    <3>1. ClientId(p, fd) \notin clients
      BY <2>1, NothingToReuse
    <3>2. PICK dup \in Free :
             thr'[p].dup = dup /\ table' = [table EXCEPT ![dup] = p] /\ thr'[p].fd = fd
      BY <1>3, <2>1, <2>5, <3>1, SetupMoves DEF Dups
    <3>3. dup \in Numbers /\ table[dup] = Nobody /\ table[fd] = p
      BY <2>1, <3>2 DEF Free, NumbersOwn
    <3>4. \A q \in Peers : \A n \in Numbers : table[n] = q => table'[n] = q
      BY <1>0, <3>2, <3>3
    <3>5. \A q \in Peers \ {p} : Holds(q)'
      BY <1>0, <2>2, <3>4, HoldsStill
    <3>6. Holds(p)'
      BY <1>0, <2>1, <2>5, <3>2, <3>3 DEF Holds
    <3> QED
      BY <2>3, <3>5, <3>6 DEF NumbersOwn
  <2> QED
    BY <1>3, <2>1, <2>4, <2>5, SetupMoves
<1>4. ASSUME NEW p \in Peers,
             RegisterThread(p) \/ Collect(p) \/ CloseConn(p) \/ CloseFile(p) \/ CloseAgain(p)
      PROVE  NumbersOwn'
  <2>1. thr[p].fd \in Numbers /\ thr[p].dup \in Numbers /\ thr[p].pc # "none" /\ acc' = acc
    BY <1>4 DEF RegisterThread, Collect, CloseConn, CloseFile, CloseAgain, At, Base, Numbered
  <2>2. table' = table \/ \E ns \in SUBSET Numbers : Closing(p, ns)
    BY <1>4, <2>1 DEF RegisterThread, Collect, CloseConn, CloseFile, CloseAgain
  <2>3. \A q \in Peers \ {p} : \A n \in Numbers : table[n] = q => table'[n] = q
    BY <2>2, ClosingSpares
  <2>4. \A q \in Peers \ {p} : thr'[q] = thr[q]
    BY <1>4, MoveFacts DEF Moves
  <2>5. \A q \in Peers \ {p} : Holds(q)'
    BY <1>0, <2>3, <2>4, HoldsStill
  <2>6. Busy' => table'[acc'.fd] = acc'.p
    <3>1. Busy => acc.p \in Peers \ {p} /\ acc.fd \in Numbers /\ table[acc.fd] = acc.p
      BY <2>1 DEF Base, Placed, NumbersOwn
    <3> QED
      BY <2>1, <2>3, <3>1 DEF Busy
  <2>7. Holds(p)'
    <3>1. CASE RegisterThread(p)
      <4>1. CASE count >= MaxThreads
        BY <3>1, <4>1, MoveFacts DEF Moves, Holds, Holding
      <4>2. CASE ~(count >= MaxThreads)
        <5>1. table' = table
          BY <3>1, <4>2 DEF RegisterThread
        <5>2. thr[p].pc = "register" /\ thr'[p].pc = "run"
              /\ thr'[p].fd = thr[p].fd /\ thr'[p].dup = thr[p].dup
          BY <3>1, <4>2, MoveFacts DEF Moves
        <5>3. Holds(p)
          BY <1>0
        <5> QED
          BY <5>1, <5>2, <5>3 DEF Holds, Holding
      <4> QED
        BY <4>1, <4>2
    <3>2. CASE CloseConn(p)
      <4>1. /\ thr[p].pc = "conn" /\ thr'[p].pc = "file" /\ thr'[p].fd = thr[p].fd
            /\ (thr'[p].err <=> table[thr[p].dup] = Nobody)
        BY <3>2, MoveFacts DEF Moves
      <4>2. table[thr[p].fd] = p /\ table[thr[p].dup] = p /\ thr[p].fd # thr[p].dup
        BY <1>0, <4>1 DEF Holds, Holding
      <4>3. Closing(p, {thr[p].dup})
        BY <3>2 DEF CloseConn
      <4>4. table'[thr[p].fd] = p
        <5>1. PICK fd \in Numbers, dup \in Numbers : fd = thr[p].fd /\ dup = thr[p].dup
          BY <2>1
        <5>2. Closing(p, {dup}) /\ fd \in Numbers \ {dup}
          BY <4>2, <4>3, <5>1
        <5>3. table'[fd] = table[fd]
          BY <1>0, <5>2, ClosingFacts
        <5> QED
          BY <4>2, <5>1, <5>3
      <4> QED
        BY <1>0, <4>1, <4>2, <4>4 DEF Holds, Holding
    <3>3. CASE Collect(p) \/ CloseFile(p) \/ CloseAgain(p)
      BY <3>3, MoveFacts DEF Moves, Holds, Holding
    <3> QED
      BY <1>4, <3>1, <3>2, <3>3
  <2> QED
    BY <2>5, <2>6, <2>7 DEF NumbersOwn
<1>5. CASE /\ UNCHANGED <<table, thr>>
           /\ UNCHANGED acc \/ Authenticate \/ AcceptEnds
  <2>1. \A q \in Peers : Holds(q)'
    BY <1>0, <1>5 DEF Holds
  <2>2. Busy' => Busy /\ acc'.p = acc.p /\ acc'.fd = acc.fd
    <3>1. Polling.pc = "poll"
      BY DEF Polling
    <3>2. AcceptOne => thr' = thr /\ edge
      BY DEF AcceptOne
    <3>3. UNCHANGED acc => Busy' = Busy /\ acc'.p = acc.p /\ acc'.fd = acc.fd
      BY DEF Busy
    <3>4. Authenticate => acc.pc = "auth"
      BY DEF Authenticate
    <3>5. AcceptEnds => acc.pc = "poll" /\ acc' = [acc EXCEPT !.pc = "ended"]
      BY DEF AcceptEnds
    <3>6. AcceptEnds => acc'.pc = "ended"
      <4>1. acc \in AcceptType
        BY DEF Base, TypesOK
      <4> QED
        BY <3>5, <4>1 DEF AcceptType
    <3>7. CASE Authenticate
      <4>1. acc' # acc /\ acc'.pc = "setup"
        <5>1. acc \in AcceptType
          BY DEF Base, TypesOK
        <5> QED
          BY <3>7, <5>1 DEF AcceptType, Authenticate
      <4>2. ~AcceptOne
        BY <3>4, <3>7 DEF AcceptOne
      <4> QED
        BY <3>1, <3>4, <3>7, <4>1, <4>2, AcceptTyped DEF Busy
    <3> QED
      BY <1>5, <3>3, <3>6, <3>7 DEF Busy
  <2> QED
    BY <1>5, <2>1, <2>2 DEF NumbersOwn
<1>6. ASSUME UNCHANGED <<table, acc>>, NEW p \in Peers,
             ReadSync(p) \/ OnTraffic(p) \/ ReadEnds(p) \/ Unregister(p) \/ Finish(p)
      PROVE  NumbersOwn'
  <2>1. /\ \A q \in Peers \ {p} : thr'[q] = thr[q]
        /\ thr'[p].fd = thr[p].fd /\ thr'[p].dup = thr[p].dup
        /\ thr'[p].pc \in Holding => thr[p].pc \in Holding
        /\ thr'[p].pc # "file"
    BY <1>6, MoveFacts DEF Moves, Holding
  <2>2. \A q \in Peers : Holds(q)'
    BY <1>0, <1>6, <2>1 DEF Holds
  <2> QED
    BY <1>6, <2>2 DEF NumbersOwn, Busy
<1> QED
  BY <1>1, <1>2, <1>3, <1>4, <1>5, <1>6, OwnSteps

Ids(S) == {Id(p) : p \in S}

LEMMA IdsOfThose ==
    ASSUME Base, [Next]_vars, NEW S \in SUBSET Peers, \A p \in S : thr[p].pc # "none"
    PROVE  Ids(S)' = Ids(S)
<1>1. \A p \in S : Id(p)' = Id(p)
  BY IdsStay
<1> QED
  BY <1>1 DEF Ids

LEMMA BooksSteps ==
    ASSUME [Next]_vars
    PROVE  \/ UNCHANGED <<clients, count, thr>>
           \/ Setup
           \/ \E p \in Peers : RegisterThread(p) \/ Unregister(p) \/ CloseFile(p)
           \/ /\ UNCHANGED <<clients, count>>
              /\ \E p \in Peers : \/ Collect(p) \/ ReadSync(p) \/ OnTraffic(p) \/ ReadEnds(p)
                                  \/ CloseConn(p) \/ CloseAgain(p) \/ Finish(p)
  BY Steps, Untouched

LEMMA BooksStayOwn ==
    ASSUME Base, NumbersOwn, BooksOwn, [Next]_vars
    PROVE  BooksOwn'
<1>0. /\ clients = Ids(With(InMap)) /\ count = Size(OnCount) /\ count <= MaxThreads
      /\ count \in Nat /\ MaxThreads \in Nat
      /\ With(InMap) \subseteq Peers /\ \A p \in With(InMap) : thr[p].pc # "none"
  BY SizeFacts, ConnectionsAssumption DEF BooksOwn, Ids, With, InMap
<1>1. Ids(With(InMap))' = {Id(p)' : p \in With(InMap)'}
  BY DEF Ids
<1>2. \A p \in With(InMap) : Id(p)' = Id(p)
  BY <1>0, IdsStay
<1>3. SUFFICES clients' = Ids(With(InMap))' /\ count' = Size(OnCount)' /\ count' <= MaxThreads
  BY DEF BooksOwn, Ids
<1>4. CASE UNCHANGED <<clients, count, thr>>
  <2>1. With(InMap)' = With(InMap) /\ Size(OnCount)' = Size(OnCount)
    BY <1>4 DEF With, Size
  <2> QED
    BY <1>0, <1>1, <1>2, <1>4, <2>1 DEF Ids
<1>5. ASSUME NEW p \in Peers, \A q \in Peers \ {p} : thr'[q] = thr[q],
             thr'[p].pc \in InMap <=> thr[p].pc \in InMap,
             thr'[p].pc \in OnCount <=> thr[p].pc \in OnCount,
             UNCHANGED <<clients, count>>
      PROVE  clients' = Ids(With(InMap))' /\ count' = Size(OnCount)' /\ count' <= MaxThreads
  <2>1. With(InMap)' = With(InMap) /\ Size(OnCount)' = Size(OnCount)
    BY <1>5, SizeMoves
  <2> QED
    BY <1>0, <1>1, <1>2, <1>5, <2>1 DEF Ids
<1>6. CASE Setup
  <2>1. PICK p \in Peers : p = acc.p /\ thr[p].pc = "none"
    BY <1>6, SetupFacts
  <2>2. thr'[p].pc \in {"register", "failed"} /\ \A q \in Peers \ {p} : thr'[q] = thr[q]
    BY <1>6, <2>1, SetupMoves
  <2>3. UNCHANGED <<clients, count>>
    BY <1>6 DEF Setup
  <2> QED
    BY <1>5, <2>1, <2>2, <2>3 DEF InMap, OnCount
<1>7. ASSUME NEW p \in Peers, RegisterThread(p)
      PROVE  clients' = Ids(With(InMap))' /\ count' = Size(OnCount)' /\ count' <= MaxThreads
  <2>1. /\ thr[p].pc = "register" /\ \A q \in Peers \ {p} : thr'[q] = thr[q]
        /\ thr'[p].pc = IF count >= MaxThreads THEN "refused" ELSE "run"
    BY <1>7, MoveFacts DEF Moves
  <2>2. CASE count >= MaxThreads
    <3>1. UNCHANGED <<clients, count>>
      BY <1>7, <2>2 DEF RegisterThread
    <3> QED
      BY <1>5, <2>1, <2>2, <3>1 DEF InMap, OnCount
  <2>3. CASE ~(count >= MaxThreads)
    <3>1. clients' = clients \cup {Id(p)} /\ count' = count + 1
      BY <1>7, <2>3 DEF RegisterThread
    <3>2. thr'[p].pc = "run"
      BY <2>1, <2>3
    <3>3. With(InMap)' = With(InMap) \cup {p}
      BY <2>1, <3>2, SizeMoves DEF InMap
    <3>4. Size(OnCount)' = Size(OnCount) + 1
      BY <2>1, <3>2, SizeMoves DEF OnCount
    <3>5. Id(p)' = Id(p)
      BY <2>1, IdsStay
    <3>6. clients' = Ids(With(InMap))'
      BY <1>0, <1>1, <1>2, <3>1, <3>3, <3>5 DEF Ids
    <3> QED
      BY <1>0, <2>3, <3>1, <3>4, <3>6
  <2> QED
    BY <2>2, <2>3
<1>8. ASSUME NEW p \in Peers, Unregister(p)
      PROVE  clients' = Ids(With(InMap))' /\ count' = Size(OnCount)' /\ count' <= MaxThreads
  <2>1. thr[p].pc = "leave" /\ clients' = clients \ {Id(p)} /\ count' = count
    BY <1>8 DEF Unregister, At
  <2>2. p \in With(InMap) /\ Id(p) \in clients
    BY <1>0, <2>1 DEF With, InMap, Ids
  <2>3. thr'[p].pc = "conn" /\ \A q \in Peers \ {p} : thr'[q] = thr[q]
    BY <1>8, <2>2, MoveFacts DEF Moves
  <2>4. With(InMap)' = With(InMap) \ {p}
    BY <2>1, <2>3, SizeMoves DEF InMap
  <2>5. Size(OnCount)' = Size(OnCount)
    BY <2>1, <2>3, SizeMoves DEF OnCount
  <2>6. ASSUME NEW q \in With(InMap), Id(q) = Id(p)
        PROVE  q = p
    <3>1. thr[q].fd = thr[p].fd
      BY <2>6 DEF Id, ClientId
    <3>2. table[thr[q].fd] = q /\ table[thr[p].fd] = p
      BY <2>2, <2>6 DEF NumbersOwn, Holds, Holding, With, InMap
    <3> QED
      BY <3>1, <3>2
  <2>7. clients' = Ids(With(InMap))'
    BY <1>0, <1>1, <1>2, <2>1, <2>2, <2>4, <2>6 DEF Ids
  <2> QED
    BY <1>0, <2>1, <2>5, <2>7
<1>9. ASSUME NEW p \in Peers, CloseFile(p)
      PROVE  clients' = Ids(With(InMap))' /\ count' = Size(OnCount)' /\ count' <= MaxThreads
  <2>1. thr[p].pc = "file" /\ thr'[p].pc = "again" /\ \A q \in Peers \ {p} : thr'[q] = thr[q]
    BY <1>9, MoveFacts DEF Moves
  <2>2. table[thr[p].fd] # Nobody /\ ~thr[p].err
    BY <2>1, ConnectionsAssumption DEF NumbersOwn, Holds
  <2>3. count' = count - 1 /\ clients' = clients
    BY <1>9, <2>2 DEF CloseFile
  <2>4. With(InMap)' = With(InMap)
    BY <2>1, SizeMoves DEF InMap
  <2>5. Size(OnCount)' = Size(OnCount) - 1
    BY <2>1, SizeMoves DEF OnCount
  <2>6. clients' = Ids(With(InMap))'
    BY <1>0, <1>1, <1>2, <2>3, <2>4 DEF Ids
  <2> QED
    BY <1>0, <2>3, <2>5, <2>6
<1>10. ASSUME UNCHANGED <<clients, count>>, NEW p \in Peers,
              \/ Collect(p) \/ ReadSync(p) \/ OnTraffic(p) \/ ReadEnds(p)
              \/ CloseConn(p) \/ CloseAgain(p) \/ Finish(p)
       PROVE  clients' = Ids(With(InMap))' /\ count' = Size(OnCount)' /\ count' <= MaxThreads
  <2>1. /\ <<thr[p].pc, thr'[p].pc>> \in
               { <<"refused", "collected">>, <<"run", "serve">>, <<"serve", "run">>,
                 <<"run", "leave">>, <<"conn", "file">>, <<"again", "finish">>,
                 <<"finish", "gone">> }
        /\ \A q \in Peers \ {p} : thr'[q] = thr[q]
    BY <1>10, MoveFacts DEF Moves
  <2>2. /\ thr'[p].pc \in InMap <=> thr[p].pc \in InMap
        /\ thr'[p].pc \in OnCount <=> thr[p].pc \in OnCount
    BY <2>1 DEF InMap, OnCount
  <2> QED
    BY <1>5, <1>10, <2>1, <2>2
<1> QED
  BY <1>4, <1>6, <1>7, <1>8, <1>9, <1>10, BooksSteps

LEMMA FitsSteps ==
    ASSUME [Next]_vars
    PROVE  \/ UNCHANGED <<peer, inbox, thr>>
           \/ \E p \in Peers : \/ Connect(p) \/ Hangup(p) \/ RegisterThread(p) \/ ReadSync(p)
                               \/ ReadOn(p) \/ ReadEnds(p)
                               \/ OnTraffic(p) \/ \E f \in Frames : Send(p, f)
           \/ Authenticate \/ Reject \/ Setup
           \/ /\ UNCHANGED <<peer, inbox>>
              /\ \E p \in Peers : \/ Collect(p) \/ Unregister(p) \/ CloseConn(p)
                                  \/ CloseFile(p) \/ CloseAgain(p) \/ Finish(p)
  BY DEF Next, vars, kernel, Accepting, AcceptOne, AcceptFails, AcceptEnds, Reading,
         ReadEnds, Leaving, Unregister, CloseConn, CloseFile, CloseAgain, Finish, Collect,
         Signal, Exit

(* A reader that takes too much takes all of one frame.                    *)
LEMMA LeavesNothing ==
    ASSUME inbox \in [Peers -> Seq(Items)], NEW p \in Peers, inbox[p] # <<>>,
           Len(inbox[p]) <= 1, NEW r \in Left(Tail(inbox[p])), inbox' = [inbox EXCEPT ![p] = r]
    PROVE  Len(inbox[p]) = 1 /\ Len(inbox'[p]) = 0
<1>0. PICK s \in Seq(Items) : s = inbox[p]
  OBVIOUS
<1>1. PICK q \in Seq(Items) : q = Tail(s)
  BY <1>0, TakeFacts
<1>2. Len(s) = 1 /\ Len(q) = 0
  <2>1. s # <<>> /\ Len(s) <= 1
    BY <1>0
  <2>2. Len(s) \in Nat /\ Len(s) # 0
    BY <2>1, FrameFacts
  <2>3. Len(q) = Len(s) - 1
    BY <1>1, <2>1, TakeFacts
  <2> QED
    BY <2>1, <2>2, <2>3
<1>3. q = <<>>
  BY <1>1, <1>2, FrameFacts
<1>4. r = <<>>
  BY <1>0, <1>1, <1>3, LeftFacts
<1>5. inbox'[p] = <<>>
  BY <1>4
<1> QED
  BY <1>0, <1>2, <1>5

LEMMA FitsStay ==
    ASSUME Base, NumbersOwn, [Next]_vars, \A p \in Peers : Fits(p)
    PROVE  \A p \in Peers : Fits(p)'
<1>0. /\ peer \in [Peers -> PeerType] /\ inbox \in [Peers -> Seq(Items)]
      /\ \A p \in Peers : peer[p].sent \in Nat /\ peer[p].got \in Nat /\ Len(inbox[p]) \in Nat
      /\ Nobody \notin Peers
  BY TypesFacts, ConnectionsAssumption DEF Base, PeerType
<1>1. ASSUME NEW p \in Peers, thr'[p].pc = "serve" => thr[p].pc = "serve" /\ thr'[p].from = thr[p].from,
             peer'[p].got = peer[p].got, peer'[p].sent = peer[p].sent,
             Len(inbox'[p]) <= Len(inbox[p]), Len(inbox'[p]) \in Nat
      PROVE  Fits(p)'
  BY <1>0, <1>1 DEF Fits
<1>2. ASSUME NEW p \in Peers, thr'[p] = thr[p], peer'[p] = peer[p], inbox'[p] = inbox[p]
      PROVE  Fits(p)'
  BY <1>2 DEF Fits
<1>3. CASE UNCHANGED <<peer, inbox, thr>>
  BY <1>2, <1>3
<1>4. ASSUME NEW r \in Peers, Connect(r) \/ Hangup(r), NEW p \in Peers
      PROVE  Fits(p)'
  <2>1. inbox' = inbox /\ thr' = thr
    BY <1>4 DEF Connect, Hangup, kernel
  <2>2. peer'[p].got = peer[p].got /\ peer'[p].sent = peer[p].sent
    BY <1>0, <1>4, PlugFacts DEF Connect, Hangup
  <2> QED
    BY <2>1, <2>2 DEF Fits
<1>5. ASSUME NEW r \in Peers, NEW f \in Frames, Send(r, f), NEW p \in Peers
      PROVE  Fits(p)'
  <2>1. thr' = thr /\ inbox' = [inbox EXCEPT ![r] = Append(inbox[r], f)]
    BY <1>5 DEF Send
  <2>2. CASE p # r
    <3>1. peer'[p] = peer[p]
      BY <1>0, <1>5, <2>2, SendFacts
    <3> QED
      BY <1>0, <1>2, <2>1, <2>2, <3>1
  <2>3. CASE p = r
    <3>1. peer'[p].sent = peer[p].sent + 1 /\ peer'[p].got = peer[p].got
      BY <1>0, <1>5, <2>3, SendFacts
    <3>2. Len(inbox'[p]) = Len(inbox[p]) + 1
      BY <1>0, <2>1, <2>3, ReceiveFacts DEF Items
    <3>3. p \notin Pipelining => peer[p].got >= peer[p].sent
      BY <1>5, <2>3 DEF Send
    <3> QED
      BY <1>0, <2>1, <3>1, <3>2, <3>3 DEF Fits
  <2> QED
    BY <2>2, <2>3
<1>6. ASSUME Authenticate, NEW p \in Peers
      PROVE  Fits(p)'
  <2>1. PICK r \in Peers : r = acc.p /\ thr[r].pc = "none"
    BY <1>6 DEF Authenticate, Base, Placed, Busy
  <2>2. thr' = thr /\ inbox' = [inbox EXCEPT ![r] = Tail(inbox[r])] /\ inbox[r] # <<>>
        /\ peer' = Answer(r)
    BY <1>6, <2>1 DEF Authenticate
  <2>3. CASE p # r
    <3>1. peer'[p] = peer[p]
      BY <1>0, <2>2, <2>3, AnswerFacts
    <3> QED
      BY <1>0, <1>2, <2>2, <2>3, <3>1
  <2>4. CASE p = r
    <3>1. peer'[p].sent = peer[p].sent /\ (p \notin Pipelining => peer'[p].got = peer[p].got + 1)
      BY <1>0, <2>2, <2>4, AnswerFacts
    <3>2. Len(inbox'[p]) = Len(inbox[p]) - 1
      BY <1>0, <2>2, <2>4, TakeFacts
    <3> QED
      BY <1>0, <2>1, <2>2, <2>4, <3>1, <3>2 DEF Fits
  <2> QED
    BY <2>3, <2>4
<1>7. ASSUME Reject, NEW p \in Peers
      PROVE  Fits(p)'
  <2>1. thr' = thr /\ peer' = peer /\ inbox' = [inbox EXCEPT ![acc.p] = <<>>]
    BY <1>7 DEF Reject
  <2>2. inbox'[p] = inbox[p] \/ inbox'[p] = <<>>
    BY <1>0, <2>1
  <2>3. Len(inbox'[p]) <= Len(inbox[p]) /\ Len(inbox'[p]) \in Nat
    BY <1>0, <2>2
  <2> QED
    BY <1>1, <2>1, <2>3
<1>8. ASSUME NEW r \in Peers, ReadSync(r), NEW p \in Peers
      PROVE  Fits(p)'
  <2>1. thr[r].pc = "run" /\ thr'[r].pc = "serve" /\ thr'[r].from = table[thr[r].dup]
        /\ \A q \in Peers \ {r} : thr'[q] = thr[q]
    BY <1>8, MoveFacts DEF Moves
  <2>2. table[thr[r].dup] = r
    BY <2>1 DEF NumbersOwn, Holds, Holding
  <2>3. /\ peer' = peer /\ inbox[r] # <<>>
        /\ \E left \in Left(Tail(inbox[r])) : inbox' = [inbox EXCEPT ![r] = left]
    BY <1>8, <2>2 DEF ReadSync
  <2>4. CASE p # r
    BY <1>0, <1>2, <2>1, <2>3, <2>4
  <2>5. CASE p = r
    <3>1. p \notin Pipelining => Len(inbox[p]) <= 1
      BY <1>0 DEF Fits
    <3>2. p \notin Pipelining => Len(inbox[p]) = 1 /\ Len(inbox'[p]) = 0
      BY <1>0, <2>3, <2>5, <3>1, LeavesNothing
    <3> QED
      BY <1>0, <2>1, <2>2, <2>3, <2>5, <3>2 DEF Fits
  <2> QED
    BY <2>4, <2>5
<1>e. ASSUME NEW r \in Peers, ReadEnds(r), NEW p \in Peers
      PROVE  Fits(p)'
  <2>1. thr[r].pc = "run" /\ thr'[r].pc = "leave" /\ \A q \in Peers \ {r} : thr'[q] = thr[q]
    BY <1>e, MoveFacts DEF Moves
  <2>2. table[thr[r].dup] = r
    BY <2>1 DEF NumbersOwn, Holds, Holding
  <2>3. /\ peer' = peer
        /\ \/ inbox' = [inbox EXCEPT ![r] = <<>>]
           \/ /\ inbox[r] # <<>>
              /\ \E left \in Left(Tail(inbox[r])) : inbox' = [inbox EXCEPT ![r] = left]
    BY <1>0, <1>e, <2>2 DEF ReadEnds
  <2>4. CASE p # r
    BY <1>0, <1>2, <2>1, <2>3, <2>4
  <2>5. CASE p = r
    <3>1. p \notin Pipelining => Len(inbox[p]) <= 1
      BY <1>0 DEF Fits
    <3>2. p \notin Pipelining => Len(inbox'[p]) = 0
      <4>1. CASE inbox' = [inbox EXCEPT ![r] = <<>>]
        BY <1>0, <2>5, <4>1
      <4>2. CASE /\ inbox[r] # <<>>
                 /\ \E left \in Left(Tail(inbox[r])) : inbox' = [inbox EXCEPT ![r] = left]
        BY <1>0, <2>5, <3>1, <4>2, LeavesNothing
      <4> QED
        BY <2>3, <4>1, <4>2
    <3> QED
      BY <1>0, <2>1, <2>3, <2>5, <3>2 DEF Fits
  <2> QED
    BY <2>4, <2>5
<1>o. ASSUME NEW r \in Peers, ReadOn(r), NEW p \in Peers
      PROVE  Fits(p)'
  <2>1. thr[r].pc = "run" /\ thr' = thr /\ peer' = peer
    BY <1>o DEF ReadOn, At
  <2>2. table[thr[r].dup] = r
    BY <2>1 DEF NumbersOwn, Holds, Holding
  <2>3. Len(inbox[r]) > 1 /\ inbox' = [inbox EXCEPT ![r] = <<"part">>]
    BY <1>o, <2>2 DEF ReadOn
  <2>4. CASE p # r
    BY <1>0, <1>2, <2>1, <2>3, <2>4
  <2>5. CASE p = r
    <3>1. p \in Pipelining
      BY <1>0, <2>3, <2>5 DEF Fits
    <3> QED
      BY <2>1, <3>1 DEF Fits
  <2> QED
    BY <2>4, <2>5
<1>9. ASSUME NEW r \in Peers, OnTraffic(r), NEW p \in Peers
      PROVE  Fits(p)'
  <2>1. thr[r].pc = "serve" /\ thr'[r].pc = "run" /\ \A q \in Peers \ {r} : thr'[q] = thr[q]
    BY <1>9, MoveFacts DEF Moves
  <2>2. table[thr[r].dup] = r
    BY <2>1 DEF NumbersOwn, Holds, Holding
  <2>3. peer' = Answer(r) /\ inbox' = inbox
    BY <1>0, <1>9, <2>2 DEF OnTraffic, kernel
  <2>4. CASE p # r
    <3>1. peer'[p] = peer[p]
      BY <1>0, <2>3, <2>4, AnswerFacts
    <3> QED
      BY <1>2, <2>1, <2>3, <2>4, <3>1
  <2>5. CASE p = r
    <3>1. peer'[p].sent = peer[p].sent /\ (p \notin Pipelining => peer'[p].got = peer[p].got + 1)
      BY <1>0, <2>3, <2>5, AnswerFacts
    <3> QED
      BY <1>0, <2>1, <2>3, <2>5, <3>1 DEF Fits
  <2> QED
    BY <2>4, <2>5
<1>10. ASSUME Setup, NEW p \in Peers
       PROVE  Fits(p)'
  <2>1. PICK r \in Peers : r = acc.p
    BY <1>10, SetupFacts
  <2>2. thr'[r].pc \in {"register", "failed"} /\ \A q \in Peers \ {r} : thr'[q] = thr[q]
    BY <1>10, <2>1, SetupMoves
  <2>3. peer' = peer /\ inbox' = inbox
    BY <1>10 DEF Setup, kernel
  <2> QED
    BY <1>0, <1>1, <2>2, <2>3
<1>11. ASSUME NEW r \in Peers, NEW p \in Peers,
              \/ RegisterThread(r)
              \/ /\ UNCHANGED <<peer, inbox>>
                 /\ \/ Collect(r) \/ Unregister(r) \/ CloseConn(r)
                    \/ CloseFile(r) \/ CloseAgain(r) \/ Finish(r)
       PROVE  Fits(p)'
  <2>1. peer' = peer /\ inbox' = inbox
    BY <1>11 DEF RegisterThread, kernel
  <2>2. thr'[r].pc # "serve" /\ \A q \in Peers \ {r} : thr'[q] = thr[q]
    BY <1>11, MoveFacts DEF Moves
  <2> QED
    BY <1>0, <1>1, <2>1, <2>2
<1> QED
  BY <1>3, <1>4, <1>5, <1>6, <1>7, <1>8, <1>e, <1>o, <1>9, <1>10, <1>11, FitsSteps

-----------------------------------------------------------------------------
(* The inductive invariant.                                                *)

Bounded == \A p \in Peers : peer[p].sent <= MaxSends[p]

ConnInv == Base /\ Spoken /\ SessionsKept /\ Counting /\ Own /\ Bounded

LEMMA BoundedStays ==
    ASSUME Base, Bounded, [Next]_vars
    PROVE  Bounded'
<1>0. /\ peer \in [Peers -> PeerType] /\ \A p \in Peers : peer[p].sent \in Nat
      /\ \A p \in Peers : MaxSends[p] \in Nat
  BY TypesFacts, ConnectionsAssumption DEF Base, PeerType
<1>1. ASSUME NEW p \in Peers
      PROVE  peer'[p].sent <= MaxSends[p]
  <2>1. peer[p].sent <= MaxSends[p]
    BY DEF Bounded
  <2>2. CASE \E f \in Frames : Send(p, f)
    <3>1. PICK f \in Frames : Send(p, f)
      BY <2>2
    <3>2. peer[p].sent < MaxSends[p]
      BY <3>1 DEF Send
    <3>3. peer'[p].sent = peer[p].sent + 1
      BY <1>0, <3>1, SendFacts
    <3> QED
      BY <1>0, <3>2, <3>3
  <2> QED
    BY <2>1, <2>2, SayingSteps
<1> QED
  BY <1>1 DEF Bounded

LEMMA OwnStays ==
    ASSUME Base, Own, [Next]_vars
    PROVE  Own'
<1>1. SUFFICES ASSUME stolen' = {}
               PROVE  NumbersOwn' /\ BooksOwn' /\ \A p \in Peers : Fits(p)'
  BY DEF Own
<1>2. stolen = {}
  <2>1. stolen \subseteq stolen'
    BY TableTyped
  <2> QED
    BY <1>1, <2>1
<1>3. NumbersOwn /\ BooksOwn /\ \A p \in Peers : Fits(p)
  BY <1>2 DEF Own
<1> QED
  BY <1>1, <1>3, NumbersStayOwn, BooksStayOwn, FitsStay

LEMMA ConnInvStays ==
    ASSUME ConnInv, [Next]_vars
    PROVE  ConnInv'
  BY BaseStays, SpokenStays, SessionsStay, CountingStays, OwnStays, BoundedStays DEF ConnInv

LEMMA ConnInvStarts ==
    ASSUME Init
    PROVE  ConnInv
<1>1. /\ \A p \in Peers : thr[p].pc = "none" /\ inbox[p] = <<>> /\ peer[p].sent = 0 /\ peer[p].got = 0
      /\ acc.pc = "poll" /\ sessions = {} /\ clients = {} /\ count = 0 /\ active = 0
  BY DEF Init, NoThread, Polling
<1>2. Base
  BY BaseStarts
<1>3. Spoken /\ SessionsKept
  BY <1>1 DEF Spoken, SessionsKept, Counted
<1>4. \A pcs : "none" \notin pcs => With(pcs) = {} /\ Size(pcs) = 0
  <2>1. \A pcs : "none" \notin pcs => With(pcs) = {}
    BY <1>1 DEF With
  <2> QED
    BY <2>1, FS_EmptySet DEF Size
<1>5. Counting
  BY <1>1, <1>4 DEF Counting, Counted, OnCount, Entered
<1>6. NumbersOwn
  BY <1>1 DEF NumbersOwn, Busy, Holds, Holding
<1>7. BooksOwn
  <2>1. With(InMap) = {} /\ Size(OnCount) = 0
    BY <1>4 DEF InMap, OnCount
  <2> QED
    BY <1>1, <2>1, ConnectionsAssumption DEF BooksOwn
<1>8. \A p \in Peers : Fits(p)
  BY <1>1 DEF Fits
<1>9. Bounded
  BY <1>1, ConnectionsAssumption DEF Bounded
<1> QED
  BY <1>2, <1>3, <1>5, <1>6, <1>7, <1>8, <1>9 DEF ConnInv, Own

LEMMA ConnInvHolds ==
    Spec => []ConnInv
<1>1. ConnInv /\ [Next]_vars => ConnInv'
  BY ConnInvStays
<1>2. Init => ConnInv
  BY ConnInvStarts
<1> QED
  BY <1>1, <1>2, PTL DEF Spec

-----------------------------------------------------------------------------
(* What numIOThreads counts.                                               *)

LEMMA CountIsRight ==
    ASSUME Base, NumbersOwn, BooksOwn
    PROVE  count = Cardinality(clients)
                       + Cardinality({p \in Peers : thr[p].pc \in {"conn", "file"}})
<1>0. /\ IsFiniteSet(With(InMap)) /\ IsFiniteSet(With({"conn", "file"}))
      /\ Size(InMap) \in Nat /\ Size({"conn", "file"}) \in Nat
  BY SizeFacts
<1>1. Size(OnCount) = Size(InMap) + Size({"conn", "file"})
  <2>1. With(OnCount) = With(InMap) \cup With({"conn", "file"})
    BY DEF With, OnCount, InMap
  <2>2. With(InMap) \cap With({"conn", "file"}) = {}
    BY DEF With, InMap
  <2>3. Cardinality(With(InMap) \cup With({"conn", "file"}))
            = Cardinality(With(InMap)) + Cardinality(With({"conn", "file"}))
                  - Cardinality({})
    BY <1>0, <2>2, FS_Union
  <2> QED
    BY <1>0, <2>1, <2>3, FS_EmptySet DEF Size
<1>2. Cardinality(clients) = Size(InMap)
  <2>1. PICK S : S = With(InMap)
    OBVIOUS
  <2>2. ASSUME NEW p \in S, NEW q \in S, Id(p) = Id(q)
        PROVE  p = q
    <3>1. thr[p].fd = thr[q].fd
      BY <2>2 DEF Id, ClientId
    <3>2. table[thr[p].fd] = p /\ table[thr[q].fd] = q
      BY <2>1, <2>2 DEF NumbersOwn, Holds, Holding, With, InMap
    <3> QED
      BY <3>1, <3>2
  <2>3. PICK f : f = [p \in S |-> Id(p)]
    OBVIOUS
  <2>4. f \in [S -> clients]
    BY <2>1, <2>3 DEF BooksOwn
  <2>5. \A a, b \in S : f[a] = f[b] => a = b
    BY <2>2, <2>3
  <2>6. \A t \in clients : \E s \in S : f[s] = t
    BY <2>1, <2>3 DEF BooksOwn
  <2>7. f \in Bijection(S, clients)
    BY <2>4, <2>5, <2>6 DEF Bijection, Injection, Surjection, IsInjective
  <2>8. ExistsBijection(S, clients)
    BY <2>7 DEF ExistsBijection
  <2>9. IsFiniteSet(S) /\ Cardinality(S) = Size(InMap)
    BY <1>0, <2>1 DEF Size
  <2> QED
    BY <2>8, <2>9, FS_Bijection
<1>3. Size({"conn", "file"}) = Cardinality({p \in Peers : thr[p].pc \in {"conn", "file"}})
  BY DEF Size, With
<1> QED
  BY <1>1, <1>2, <1>3 DEF BooksOwn

-----------------------------------------------------------------------------
(* The theorems.                                                           *)

(* The books of IOThreadManager are right, whatever the clients, their     *)
(* addresses, the descriptors and the limit: the counters stay within the  *)
(* number of clients, and as long as no goroutine closes another's number  *)
(* GetThread finds nothing to reuse and numIOThreads is the number of      *)
(* threads registered or closing, at most the limit.                       *)
THEOREM BooksFollowThreads ==
    Spec => []BooksAreRight
<1>1. ConnInv => BooksAreRight
  <2> SUFFICES ASSUME ConnInv PROVE BooksAreRight
    OBVIOUS
  <2>1. TypeOK
    <3>1. Cardinality(Peers) \in Nat
      BY ConnectionsAssumption, FS_CardinalityType
    <3>2. /\ active \in Nat /\ active <= Cardinality(Peers)
          /\ count \in Nat /\ count <= Cardinality(Peers)
      <4>1. /\ Size(Counted) \in Nat /\ Size(Counted) <= Cardinality(Peers)
            /\ Size(Entered) \in Nat /\ Size(Entered) <= Cardinality(Peers)
        BY SizeFacts
      <4> QED
        BY <3>1, <4>1 DEF ConnInv, Counting
    <3> QED
      BY <3>1, <3>2 DEF TypeOK, ConnInv, Base, Bounded
  <2>2. NoThreadToReuse
    BY NothingToReuse DEF NoThreadToReuse, ConnInv, Own, Busy
  <2>3. CountTellsThreads
    <3>1. SUFFICES ASSUME stolen = {}
                   PROVE  /\ count = Cardinality(clients)
                                 + Cardinality({p \in Peers : thr[p].pc \in {"conn", "file"}})
                          /\ count <= MaxThreads
      BY DEF CountTellsThreads
    <3>2. Base /\ NumbersOwn /\ BooksOwn
      BY <3>1 DEF ConnInv, Own
    <3> QED
      BY <3>2, CountIsRight DEF BooksOwn
  <2> QED
    BY <2>1, <2>2, <2>3 DEF BooksAreRight
<1> QED
  BY <1>1, ConnInvHolds, PTL

(* Nobody is served who did not send the right credentials, whoever is     *)
(* served has a session unless an earlier connection with its id took it   *)
(* along, and a session is left over only where nobody disconnects.        *)
THEOREM SessionsFollowConnections ==
    Spec => []SessionsBelong
<1>1. ConnInv => SessionsBelong
  <2> SUFFICES ASSUME ConnInv PROVE SessionsBelong
    OBVIOUS
  <2>1. \A p \in Peers : thr[p].pc \in {"run", "serve"} =>
            Id(p) \in sessions \/ \E q \in Peers \ {p} : thr[q].pc = "gone" /\ Id(q) = Id(p)
    BY DEF ConnInv, SessionsKept, HasSession, Counted, Id
  <2>2. \A p \in Peers : thr[p].pc # "none" =>
            peer[p].said = IF EnableAuth THEN "right" ELSE "none"
    BY DEF ConnInv, Spoken, Right
  <2> QED
    BY <2>1, <2>2 DEF SessionsBelong, ConnInv, SessionsKept
<1> QED
  BY <1>1, ConnInvHolds, PTL

(* As long as no goroutine closes another's number, a thread reads and     *)
(* answers its own connection, though descriptors are used again, and a    *)
(* client that waits for each answer gets at most one for each frame it    *)
(* sent.  (The readers' lost bytes make it false of clients that pipeline.)*)
THEOREM AnswersFollowFrames ==
    Spec => []AnswersAreOwn
<1>1. ConnInv => AnswersAreOwn
  <2> SUFFICES ASSUME ConnInv, stolen = {}, NEW p \in Peers
               PROVE  /\ p \notin Pipelining => peer[p].got <= peer[p].sent
                      /\ thr[p].pc \in {"run", "serve"} => Owned(p)
                      /\ thr[p].pc = "serve" => thr[p].from = p
    BY DEF AnswersAreOwn
  <2>1. NumbersOwn /\ Fits(p) /\ Base
    BY DEF ConnInv, Own
  <2>2. /\ peer[p].got \in Nat /\ peer[p].sent \in Nat
        /\ inbox[p] \in Seq(Items)
    BY <2>1, TypesFacts DEF Base, PeerType
  <2>3. Len(inbox[p]) \in Nat
    BY <2>2
  <2>4. thr[p].pc \in {"run", "serve"} => Owned(p)
    BY <2>1 DEF NumbersOwn, Holds, Holding, Owned
  <2> QED
    BY <2>1, <2>2, <2>3, <2>4 DEF Fits
<1> QED
  BY <1>1, ConnInvHolds, PTL
=============================================================================
