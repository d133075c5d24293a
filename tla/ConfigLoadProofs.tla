--------------------------- MODULE ConfigLoadProofs ---------------------------
(***************************************************************************)
(* load_config() puts on the list what the file says, for every file of    *)
(* the layout of sample.yaml (Regular).  The tokens of a file are laid out *)
(* one behind the other (FlattenProofs); the invariant says at which of    *)
(* them each loop can be, and how many peers have been begun there.        *)
(***************************************************************************)
EXTENDS ConfigProofs, FlattenProofs

(* Where the parts of a file start among its tokens.                        *)

IsPeers(s) == s.key = "symmetric-peers"

SecParts(f) == [i \in DOMAIN f.sections |-> SectionTokens(f.sections[i])]
EntParts(s) == [j \in DOMAIN s.entries |-> EntryTokens(s.entries[j])]
PairParts(e) == [k \in DOMAIN e |-> PairTokens(e[k])]

SecAt(f, i) == 2 + Off(SecParts(f), i)
EntAt(f, i, j) == SecAt(f, i) + 4 + Off(EntParts(f.sections[i]), j)
PairAt(f, i, j, k) == EntAt(f, i, j) + 2 + Off(PairParts(f.sections[i].entries[j]), k)

(* How many peers come before them.                                         *)

MapParts(es) == [j \in DOMAIN es |-> IF es[j] = <<>> THEN <<>> ELSE <<es[j]>>]
SymParts(f) == [i \in DOMAIN f.sections |->
                  IF IsPeers(f.sections[i]) THEN Mappings(f.sections[i].entries) ELSE <<>>]

SecRank(f, i) == Off(SymParts(f), i)
Rank(f, i, j) == SecRank(f, i) + IF IsPeers(f.sections[i]) THEN Off(MapParts(f.sections[i].entries), j) ELSE 0

-----------------------------------------------------------------------------
\* c peers have been begun; the last is that of e, those before it complete.
Begun(c, e) ==
    /\ peerid = c + 1
    /\ c > 0 => peer = Described(e, c)
    /\ \A m \in 1..c - 1 : MPL[c - m] = Described(Symmetric(file)[m], m)

\* All of them are complete.
Complete(c) == Begun(c, Symmetric(file)[c])

\* No list of peers comes before section i, or sequence does not say so.
NoPeersBefore(i) ==
    sequence = SEQ_SPEER => \E h \in 1..i - 1 : IsPeers(file.sections[h])

\* In the entries of section i: are they peers?
ReadsAsPeers(i) == IF IsPeers(file.sections[i]) THEN sequence = SEQ_SPEER
                   ELSE IF pc \in {"entry", "pair"} THEN sequence # SEQ_SPEER
                   ELSE NoPeersBefore(i)

AtStart == /\ \/ pc = "open" /\ pos = 0
              \/ pc = "outer" /\ pos \in {1, 2}
              \/ pc = "skip" /\ pos = 3
           /\ sequence # SEQ_SPEER /\ Complete(0)

AtSection(i) == /\ pc = "outer" /\ pos = SecAt(file, i) + 1
                /\ NoPeersBefore(i) /\ Complete(SecRank(file, i))

AtStreamEnd == LET i == Len(file.sections) + 1
               IN  pc = "outer" /\ pos = SecAt(file, i) + 2 /\ Complete(SecRank(file, i))

AtSectionEnd(i) == /\ pc \in {"outer", "skip", "entry", "pair"} /\ pos = SecAt(file, i + 1)
                   /\ NoPeersBefore(i + 1) /\ Complete(SecRank(file, i + 1))

\* The loops that a section may be read by.
LoopsOf(i) == IF IsPeers(file.sections[i]) THEN {"entry", "pair"} ELSE {"outer", "skip", "entry", "pair"}

AtEntry(i, j) == /\ pc \in LoopsOf(i) /\ pos = EntAt(file, i, j) + 1
                 /\ ReadsAsPeers(i) /\ Complete(Rank(file, i, j))

InEntry(i, j) == /\ pc \in LoopsOf(i) \ {"pair"} /\ pos = EntAt(file, i, j) + 2
                 /\ ReadsAsPeers(i) /\ Complete(Rank(file, i, j))

\* At the k-th pair of an entry, or at its END.
AtPair(i, j, k) ==
    LET e == file.sections[i].entries[j]
    IN  /\ pc = "pair" /\ pos = PairAt(file, i, j, k) + 1
        /\ ReadsAsPeers(i)
        /\ IF IsPeers(file.sections[i]) /\ k > 1
             THEN /\ Begun(Rank(file, i, j) + 1, SubSeq(e, 1, k - 1))
                  /\ name = e[1][2] /\ last_name = name
             ELSE Complete(Rank(file, i, j))
        /\ IsPeers(file.sections[i]) => k <= Len(e)

\* Within the k-th pair of an entry that is skipped, or at its END.
InSkip(i, j, k, c) ==
    /\ pc = "skip" /\ pos = PairAt(file, i, j, k) + c
    /\ ~IsPeers(file.sections[i]) /\ NoPeersBefore(i)
    /\ Complete(Rank(file, i, j))

Pairs(i, j) == DOMAIN file.sections[i].entries[j]
Places(i, j, k) == IF k \in Pairs(i, j) THEN 1..Len(PairTokens(file.sections[i].entries[j][k])) ELSE {1}

\* Where load_config can be.
Somewhere ==
    \/ AtStart
    \/ \E i \in 2..Len(file.sections) + 1 : AtSection(i)
    \/ AtStreamEnd
    \/ \E i \in DOMAIN file.sections :
          LET es == file.sections[i].entries
          IN  \/ es # <<>> /\ AtSectionEnd(i)
              \/ \E j \in DOMAIN es :
                    \/ AtEntry(i, j) \/ InEntry(i, j)
                    \/ es[j] # <<>> /\ \E k \in 1..Len(es[j]) + 1 :
                          AtPair(i, j, k) \/ \E c \in Places(i, j, k) : InSkip(i, j, k, c)

LoadsInv == file.good = All /\ Regular(file) =>
    /\ toks = Tokens(file)
    /\ pc = "exited" \/ (pc = "done" /\ LoadsPeers) \/ (pc \notin {"exited", "done"} /\ Somewhere)

-----------------------------------------------------------------------------
(* The tokens of a file are where they are said to be.                      *)

Kinds == {"STREAM_START", "STREAM_END", "MAP", "SEQ", "KEY", "VALUE", "ENTRY", "END", "SCALAR"}
Toks == [type : Kinds, value : STRING \cup {"", "x"}]
Pairing == STRING \X STRING

\* A token without a value, and one with.
LEMMA MarkType == \A k \in Kinds : Mark(k) \in Toks /\ Mark(k).type = k
  BY DEF Mark, Toks

\* A scalar's value is the text itself.
LEMMA ScalarType == \A v \in STRING \cup {"", "x"} : Scalar(v) \in Toks /\ Scalar(v).type = "SCALAR"
  BY DEF Scalar, Toks, Kinds

\* The tokens of a pair: three, or four with a value.
LEMMA PairLayout ==
  ASSUME NEW p \in Pairing, p[2] # "nested"
  PROVE  /\ PairTokens(p) \in Seq(Toks)
         /\ Len(PairTokens(p)) = IF p[2] = "empty" THEN 3 ELSE 4
         /\ PairTokens(p)[1] = Mark("KEY") /\ PairTokens(p)[2] = Scalar(p[1])
         /\ PairTokens(p)[3] = Mark("VALUE")
         /\ p[2] # "empty" => PairTokens(p)[4] = Scalar(p[2])
<1>1. Mark("KEY") \in Toks /\ Mark("VALUE") \in Toks
  BY MarkType DEF Kinds
<1>2. Scalar(p[1]) \in Toks /\ Scalar(p[2]) \in Toks
  BY ScalarType DEF Pairing
<1> HIDE DEF Toks
<1>3. CASE p[2] = "empty"
  <2>1. PairTokens(p) = <<Mark("KEY"), Scalar(p[1]), Mark("VALUE")>> \o <<>>
    BY <1>3 DEF PairTokens, ValueTokens
  <2>2. QED
    BY <1>1, <1>2, <1>3, <2>1
<1>4. CASE p[2] # "empty"
  <2>1. PairTokens(p) = <<Mark("KEY"), Scalar(p[1]), Mark("VALUE")>> \o <<Scalar(p[2])>>
    BY <1>4 DEF PairTokens, ValueTokens
  <2>2. QED
    BY <1>1, <1>2, <1>4, <2>1
<1>5. QED
  BY <1>3, <1>4

\* What is put in front of and behind a sequence.
InThree(S, t, a, s, b) ==
    /\ t \in Seq(S) /\ Len(t) = Len(a) + Len(s) + Len(b)
    /\ \A c \in 1..Len(a) : t[c] = a[c]
    /\ \A c \in 1..Len(s) : t[Len(a) + c] = s[c]
    /\ \A c \in 1..Len(b) : t[Len(a) + Len(s) + c] = b[c]

\* Three sequences one behind the other.
LEMMA Between ==
  ASSUME NEW S, NEW a \in Seq(S), NEW s \in Seq(S), NEW b \in Seq(S)
  PROVE  InThree(S, a \o s \o b, a, s, b)
  BY DEF InThree

\* Parts one behind the other, with a in front of them and b behind.
LaidOut(S, t, a, ss, b) ==
    /\ t \in Seq(S) /\ Len(t) = Len(a) + Off(ss, Len(ss) + 1) + Len(b)
    /\ Off(ss, 1) = 0 /\ Off(ss, Len(ss) + 1) \in Nat
    /\ \A c \in 1..Len(a) : t[c] = a[c]
    /\ \A c \in 1..Len(b) : t[Len(a) + Off(ss, Len(ss) + 1) + c] = b[c]
    /\ \A m \in 1..Len(ss) :
          /\ Off(ss, m) \in Nat /\ Off(ss, m + 1) = Off(ss, m) + Len(ss[m])
          /\ Off(ss, m + 1) <= Off(ss, Len(ss) + 1)
          /\ \A c \in 1..Len(ss[m]) : t[Len(a) + Off(ss, m) + c] = ss[m][c]

\* A flattened list between a head and a foot is laid out.
LEMMA Framed ==
  ASSUME NEW S, NEW a \in Seq(S), NEW ss \in Seq(Seq(S)), NEW b \in Seq(S),
         NEW t, t = a \o FlattenSeq(ss) \o b
  PROVE  LaidOut(S, t, a, ss, b)
<1> DEFINE s == FlattenSeq(ss)
           n == Len(ss)
           o(m) == Off(ss, m)
<1>1. /\ s \in Seq(S) /\ Len(s) = o(n + 1) /\ o(1) = 0
      /\ \A m \in 1..n :
            /\ o(m) \in Nat /\ o(m + 1) = o(m) + Len(ss[m]) /\ o(m + 1) <= Len(s)
            /\ \A c \in 1..Len(ss[m]) : s[o(m) + c] = ss[m][c]
  <2> HIDE DEF o, n, s
  <2>1. QED
    BY FlattenParts DEF o, n, s
<1>2. n \in Nat /\ \A m \in 1..n : Len(ss[m]) \in Nat
  OBVIOUS
<1>3. t = a \o s \o b
  OBVIOUS
<1> HIDE DEF s, n, o
<1>4. InThree(S, t, a, s, b)
  BY <1>1, <1>3, Between
<1>5. Len(s) \in Nat /\ Len(a) \in Nat
  BY <1>1
<1>6. ASSUME NEW m \in 1..n, NEW c \in 1..Len(ss[m]) PROVE t[Len(a) + o(m) + c] = ss[m][c]
  <2>1. /\ o(m) \in Nat /\ Len(ss[m]) \in Nat /\ o(m) + Len(ss[m]) <= Len(s)
        /\ s[o(m) + c] = ss[m][c]
    BY <1>1, <1>2
  <2>2. o(m) + c \in 1..Len(s)
    BY <1>5, <2>1
  <2>3. Len(a) + (o(m) + c) = Len(a) + o(m) + c
    BY <1>5, <2>1
  <2>4. t[Len(a) + (o(m) + c)] = s[o(m) + c]
    BY <1>4, <2>2 DEF InThree
  <2>5. QED
    BY <2>1, <2>3, <2>4
<1>7. QED
  BY <1>1, <1>2, <1>4, <1>5, <1>6 DEF s, n, o, InThree, LaidOut

\* The parts of a sequence are a sequence of as many.
EntryOK(e) == e \in Seq(Pairing) /\ \A k \in DOMAIN e : e[k][2] # "nested"

\* The parts of an entry are the tokens of its pairs.
LEMMA PairPartsType ==
  ASSUME NEW e, EntryOK(e)
  PROVE  /\ PairParts(e) \in Seq(Seq(Toks)) /\ Len(PairParts(e)) = Len(e)
         /\ DOMAIN e = 1..Len(e) /\ Len(e) \in Nat
         /\ \A k \in DOMAIN e : PairParts(e)[k] = PairTokens(e[k])
<1>1. DOMAIN e = 1..Len(e) /\ Len(e) \in Nat
  BY DEF EntryOK
<1>2. \A k \in 1..Len(e) : PairTokens(e[k]) \in Seq(Toks)
  BY <1>1, PairLayout DEF EntryOK
<1>3. PairParts(e) = [k \in 1..Len(e) |-> PairTokens(e[k])]
  BY <1>1 DEF PairParts
<1> HIDE DEF Toks
<1>4. QED
  BY <1>1, <1>2, <1>3

EntryHead == <<Mark("ENTRY"), Mark("MAP")>>
ListFoot == <<Mark("END")>>
SectionHead(s) == <<Mark("KEY"), Scalar(s.key), Mark("VALUE"), Mark("SEQ")>>
FileHead == <<Mark("STREAM_START"), Mark("MAP")>>
FileFoot == <<Mark("END"), Mark("STREAM_END")>>

\* What stands around the parts of entries, lists and files.
LEMMA Frames ==
  /\ EntryHead \in Seq(Toks) /\ Len(EntryHead) = 2 /\ EntryHead[1] = Mark("ENTRY") /\ EntryHead[2] = Mark("MAP")
  /\ ListFoot \in Seq(Toks) /\ Len(ListFoot) = 1 /\ ListFoot[1] = Mark("END")
  /\ FileHead \in Seq(Toks) /\ Len(FileHead) = 2
  /\ FileHead[1] = Mark("STREAM_START") /\ FileHead[2] = Mark("MAP")
  /\ FileFoot \in Seq(Toks) /\ Len(FileFoot) = 2
  /\ FileFoot[1] = Mark("END") /\ FileFoot[2] = Mark("STREAM_END")
<1>1. \A k \in {"ENTRY", "MAP", "END", "STREAM_START", "STREAM_END"} : Mark(k) \in Toks
  BY MarkType DEF Kinds
<1> HIDE DEF Toks
<1>2. QED
  BY <1>1 DEF EntryHead, ListFoot, FileHead, FileFoot

\* The tokens of an entry: ENTRY and MAP, its pairs, END.
LEMMA EntryLayout ==
  ASSUME NEW e, EntryOK(e)
  PROVE  /\ EntryTokens(e) \in Seq(Toks) /\ EntryTokens(e)[1] = Mark("ENTRY")
         /\ e = <<>> => Len(EntryTokens(e)) = 2 /\ EntryTokens(e)[2] = Scalar("x")
         /\ e # <<>> => LaidOut(Toks, EntryTokens(e), EntryHead, PairParts(e), ListFoot)
<1>1. Mark("ENTRY") \in Toks /\ Scalar("x") \in Toks
  BY MarkType, ScalarType DEF Kinds
<1> HIDE DEF Toks
<1>2. CASE e = <<>>
  BY <1>1, <1>2 DEF EntryTokens
<1>3. CASE e # <<>>
  <2>1. EntryTokens(e) = EntryHead \o FlattenSeq(PairParts(e)) \o ListFoot
    BY <1>3 DEF EntryTokens, PairParts, EntryHead, ListFoot
  <2>2. PairParts(e) \in Seq(Seq(Toks))
    BY PairPartsType
  <2>3. LaidOut(Toks, EntryTokens(e), EntryHead, PairParts(e), ListFoot)
    BY <2>1, <2>2, Frames, Framed
  <2>4. EntryTokens(e) \in Seq(Toks) /\ EntryTokens(e)[1] = Mark("ENTRY")
    BY <2>3, Frames DEF LaidOut
  <2>5. QED
    BY <1>3, <2>3, <2>4
<1>4. QED
  BY <1>2, <1>3

SectionOK(s) == /\ s \in [key : STRING, entries : Seq(Seq(Pairing))]
                /\ \A j \in DOMAIN s.entries : EntryOK(s.entries[j])

\* The parts of a section are the tokens of its entries.
LEMMA EntPartsType ==
  ASSUME NEW s, SectionOK(s)
  PROVE  /\ EntParts(s) \in Seq(Seq(Toks)) /\ Len(EntParts(s)) = Len(s.entries)
         /\ DOMAIN s.entries = 1..Len(s.entries) /\ Len(s.entries) \in Nat
         /\ \A j \in DOMAIN s.entries : EntParts(s)[j] = EntryTokens(s.entries[j])
<1>1. DOMAIN s.entries = 1..Len(s.entries) /\ Len(s.entries) \in Nat
  BY DEF SectionOK
<1>2. \A j \in 1..Len(s.entries) : EntryTokens(s.entries[j]) \in Seq(Toks)
  BY <1>1, EntryLayout DEF SectionOK
<1>3. EntParts(s) = [j \in 1..Len(s.entries) |-> EntryTokens(s.entries[j])]
  BY <1>1 DEF EntParts
<1> HIDE DEF Toks
<1>4. QED
  BY <1>1, <1>2, <1>3

\* The tokens of a section: its key, then a list of its entries.
LEMMA SectionLayout ==
  ASSUME NEW s, SectionOK(s)
  PROVE  /\ SectionTokens(s) \in Seq(Toks)
         /\ SectionTokens(s)[1] = Mark("KEY") /\ SectionTokens(s)[2] = Scalar(s.key)
         /\ SectionTokens(s)[3] = Mark("VALUE")
         /\ s.entries = <<>> => Len(SectionTokens(s)) = 4 /\ SectionTokens(s)[4] = Scalar("x")
         /\ s.entries # <<>> => LaidOut(Toks, SectionTokens(s), SectionHead(s), EntParts(s), ListFoot)
<1>1. /\ Mark("KEY") \in Toks /\ Mark("VALUE") \in Toks /\ Mark("SEQ") \in Toks
      /\ Scalar("x") \in Toks
  BY MarkType, ScalarType DEF Kinds
<1>2. Scalar(s.key) \in Toks
  BY ScalarType DEF SectionOK
<1> HIDE DEF Toks
<1>3. CASE s.entries = <<>>
  <2>1. SectionTokens(s) = <<Mark("KEY"), Scalar(s.key), Mark("VALUE")>> \o <<Scalar("x")>>
    BY <1>3 DEF SectionTokens
  <2>2. QED
    BY <1>1, <1>2, <1>3, <2>1
<1>4. CASE s.entries # <<>>
  <2> DEFINE a == <<Mark("KEY"), Scalar(s.key), Mark("VALUE")>>
             b == <<Mark("SEQ")>>
             t == FlattenSeq(EntParts(s))
  <2>1. SectionTokens(s) = a \o ((b \o t) \o ListFoot)
    BY <1>4 DEF SectionTokens, EntParts, ListFoot
  <2>2. EntParts(s) \in Seq(Seq(Toks))
    BY EntPartsType
  <2>3. t \in Seq(Toks)
    BY <2>2, FlattenParts
  <2>4. a \in Seq(Toks) /\ b \in Seq(Toks) /\ ListFoot \in Seq(Toks)
    BY <1>1, <1>2, Frames
  <2>5. /\ SectionHead(s) = a \o b /\ SectionHead(s) \in Seq(Toks) /\ Len(SectionHead(s)) = 4
        /\ SectionHead(s)[1] = Mark("KEY") /\ SectionHead(s)[2] = Scalar(s.key)
        /\ SectionHead(s)[3] = Mark("VALUE")
    BY <1>1, <1>2 DEF SectionHead
  <2> HIDE DEF a, b, t
  <2>6. a \o ((b \o t) \o ListFoot) = ((a \o b) \o t) \o ListFoot
    <3>1. \A x, y, z \in Seq(Toks) : (x \o y) \o z = x \o (y \o z)
      BY ConcatAssociative
    <3>2. b \o t \in Seq(Toks) /\ a \o b \in Seq(Toks)
      BY <2>3, <2>4
    <3>3. a \o ((b \o t) \o ListFoot) = (a \o (b \o t)) \o ListFoot
      BY <2>4, <3>2, <3>1
    <3>4. a \o (b \o t) = (a \o b) \o t
      BY <2>3, <2>4, <3>1
    <3>5. QED
      BY <3>3, <3>4
  <2>7. SectionTokens(s) = SectionHead(s) \o FlattenSeq(EntParts(s)) \o ListFoot
    BY <2>1, <2>5, <2>6 DEF t
  <2>8. LaidOut(Toks, SectionTokens(s), SectionHead(s), EntParts(s), ListFoot)
    BY <2>2, <2>4, <2>5, <2>7, Framed
  <2>9. /\ SectionTokens(s) \in Seq(Toks)
        /\ \A c \in 1..3 : SectionTokens(s)[c] = SectionHead(s)[c]
    <3>1. 1..3 \subseteq 1..Len(SectionHead(s))
      BY <2>5
    <3>2. QED
      BY <2>8, <3>1 DEF LaidOut
  <2>10. /\ SectionTokens(s)[1] = SectionHead(s)[1] /\ SectionTokens(s)[2] = SectionHead(s)[2]
         /\ SectionTokens(s)[3] = SectionHead(s)[3]
    <3>1. 1 \in 1..3 /\ 2 \in 1..3 /\ 3 \in 1..3
      OBVIOUS
    <3>2. QED
      BY <2>9, <3>1
  <2>11. QED
    BY <1>4, <2>5, <2>8, <2>9, <2>10
<1>5. QED
  BY <1>3, <1>4

FileOK(f) == /\ f.sections \in Seq([key : STRING, entries : Seq(Seq(Pairing))])
             /\ \A i \in DOMAIN f.sections : SectionOK(f.sections[i])

\* A file of the layout of sample.yaml has sections of entries of pairs.
LEMMA RegularFileOK == ASSUME NEW f, Regular(f) PROVE FileOK(f)
<1> DEFINE Secs == [key : STRING, entries : Seq(Seq(Pairing))]
<1>1. f.sections \in Seq(Secs)
  BY DEF Regular, Pairing
<1>2. ASSUME NEW i \in DOMAIN f.sections PROVE SectionOK(f.sections[i])
  <2>1. f.sections[i] \in Secs /\ f.sections[i].entries \in Seq(Seq(Pairing))
    <3>1. f.sections[i] \in Secs
      <4> HIDE DEF Secs
      <4>1. QED
        BY <1>1, ElementOfSeq
    <3>2. QED
      BY <3>1
  <2>2. ASSUME NEW j \in DOMAIN f.sections[i].entries PROVE EntryOK(f.sections[i].entries[j])
    <3>1. f.sections[i].entries[j] \in Seq(Pairing)
      <4> DEFINE P == Seq(Pairing)
      <4>1. f.sections[i].entries \in Seq(P)
        BY <2>1
      <4> HIDE DEF P
      <4>2. f.sections[i].entries[j] \in P
        BY <4>1, ElementOfSeq
      <4>3. QED
        BY <4>2 DEF P
    <3>2. QED
      BY <3>1 DEF Regular, Plain, EntryOK
  <2>3. QED
    BY <2>1, <2>2 DEF SectionOK
<1>3. QED
  BY <1>1, <1>2 DEF FileOK

\* The tokens of a file are those of its sections, between its head and its foot.
LEMMA FileLayout ==
  ASSUME NEW f, FileOK(f)
  PROVE  /\ LaidOut(Toks, Tokens(f), FileHead, SecParts(f), FileFoot)
         /\ Len(SecParts(f)) = Len(f.sections)
         /\ DOMAIN f.sections = 1..Len(f.sections) /\ Len(f.sections) \in Nat
         /\ \A i \in DOMAIN f.sections : SecParts(f)[i] = SectionTokens(f.sections[i])
<1>1. DOMAIN f.sections = 1..Len(f.sections) /\ Len(f.sections) \in Nat
  BY DEF FileOK
<1>2. \A i \in 1..Len(f.sections) : SectionTokens(f.sections[i]) \in Seq(Toks)
  BY <1>1, SectionLayout DEF FileOK
<1>3. SecParts(f) = [i \in 1..Len(f.sections) |-> SectionTokens(f.sections[i])]
  BY <1>1 DEF SecParts
<1> HIDE DEF Toks
<1>4. /\ SecParts(f) \in Seq(Seq(Toks)) /\ Len(SecParts(f)) = Len(f.sections)
      /\ \A i \in DOMAIN f.sections : SecParts(f)[i] = SectionTokens(f.sections[i])
  BY <1>1, <1>2, <1>3
<1>5. Tokens(f) = FileHead \o FlattenSeq(SecParts(f)) \o FileFoot
  BY DEF Tokens, SecParts, FileHead, FileFoot
<1>6. LaidOut(Toks, Tokens(f), FileHead, SecParts(f), FileFoot)
  BY <1>4, <1>5, Frames, Framed
<1>7. QED
  BY <1>1, <1>4, <1>6

(* Where the parts of a file are.                                           *)

\* In t, the tokens u come behind the first p.
Placed(t, p, u) == p \in Nat /\ p + Len(u) <= Len(t) /\ \A c \in 1..Len(u) : t[p + c] = u[c]

\* So do the parts ss of u, and what is behind them.
PartsPlaced(t, p, u, a, ss, b) ==
    /\ \A m \in 1..Len(ss) : Placed(t, p + Len(a) + Off(ss, m), ss[m])
    /\ Placed(t, p + Len(a) + Off(ss, Len(ss) + 1), b)
    /\ p + Len(u) = p + Len(a) + Off(ss, Len(ss) + 1) + Len(b)

\* A part of a part is a part.
LEMMA Nested ==
  ASSUME NEW S, NEW t, NEW p, NEW u, NEW a \in Seq(S), NEW ss \in Seq(Seq(S)), NEW b \in Seq(S),
         Len(t) \in Nat, Placed(t, p, u), LaidOut(S, u, a, ss, b)
  PROVE  PartsPlaced(t, p, u, a, ss, b)
<1> DEFINE n == Len(ss)
           o(m) == Off(ss, m)
<1>1. /\ p \in Nat /\ p + Len(u) <= Len(t) /\ \A c \in 1..Len(u) : t[p + c] = u[c]
      /\ n \in Nat /\ Len(a) \in Nat /\ Len(b) \in Nat
      /\ \A m \in 1..n : Len(ss[m]) \in Nat
  BY DEF Placed
<1>2. /\ Len(u) = Len(a) + o(n + 1) + Len(b) /\ o(n + 1) \in Nat
      /\ \A c \in 1..Len(b) : u[Len(a) + o(n + 1) + c] = b[c]
      /\ \A m \in 1..n :
            /\ o(m) \in Nat /\ o(m + 1) = o(m) + Len(ss[m]) /\ o(m + 1) <= o(n + 1)
            /\ \A c \in 1..Len(ss[m]) : u[Len(a) + o(m) + c] = ss[m][c]
  BY DEF LaidOut
<1> HIDE DEF n, o
<1>3. ASSUME NEW m \in 1..n PROVE Placed(t, p + Len(a) + o(m), ss[m])
  <2> DEFINE l == Len(ss[m])
             r == o(m)
             z == o(n + 1)
             la == Len(a)
             q == p + la + r
  <2>1. l \in Nat /\ r \in Nat /\ r + l <= z
    BY <1>1, <1>2
  <2>2. \A c \in 1..l : u[la + r + c] = ss[m][c]
    BY <1>2
  <2>3. p \in Nat /\ la \in Nat /\ z \in Nat /\ Len(b) \in Nat /\ Len(t) \in Nat
    BY <1>1, <1>2
  <2>4. Len(u) = la + z + Len(b) /\ p + Len(u) <= Len(t)
    BY <1>1, <1>2
  <2> HIDE DEF l, r, z, la
  <2>5. q \in Nat /\ q + l <= Len(t)
    BY <2>1, <2>3, <2>4
  <2>6. ASSUME NEW c \in 1..l PROVE t[q + c] = ss[m][c]
    <3>1. la + r + c \in 1..Len(u)
      BY <2>1, <2>3, <2>4
    <3>2. p + (la + r + c) = q + c
      BY <2>1, <2>3
    <3>3. QED
      BY <1>1, <2>2, <3>1, <3>2
  <2>7. QED
    BY <2>5, <2>6 DEF Placed, l, la, r
<1>4. Placed(t, p + Len(a) + o(n + 1), b)
  <2>1. ASSUME NEW c \in 1..Len(b) PROVE t[p + Len(a) + o(n + 1) + c] = b[c]
    <3>1. Len(a) + o(n + 1) + c \in 1..Len(u) /\ p + (Len(a) + o(n + 1) + c) = p + Len(a) + o(n + 1) + c
      BY <1>1, <1>2
    <3>2. QED
      BY <1>1, <1>2, <3>1
  <2>2. p + Len(a) + o(n + 1) \in Nat /\ p + Len(a) + o(n + 1) + Len(b) <= Len(t)
    BY <1>1, <1>2
  <2>3. QED
    BY <2>1, <2>2 DEF Placed
<1>5. p + Len(u) = p + Len(a) + o(n + 1) + Len(b)
  BY <1>1, <1>2
<1>6. QED
  BY <1>3, <1>4, <1>5 DEF n, o, PartsPlaced

\* The head and the foot of a file, and its sections.
LEMMA FileAt ==
  ASSUME NEW f, FileOK(f)
  PROVE  LET t == Tokens(f)
             z == SecAt(f, Len(f.sections) + 1)
         IN  /\ t[1] = Mark("STREAM_START") /\ t[2] = Mark("MAP") /\ SecAt(f, 1) = 2
             /\ z \in Nat /\ Len(t) = z + 2
             /\ t[z + 1] = Mark("END") /\ t[z + 2] = Mark("STREAM_END")
<1>1. /\ LaidOut(Toks, Tokens(f), FileHead, SecParts(f), FileFoot)
      /\ Len(SecParts(f)) = Len(f.sections)
  BY FileLayout
<1>2. 1 \in 1..Len(FileHead) /\ 2 \in 1..Len(FileHead) /\ 1 \in 1..Len(FileFoot) /\ 2 \in 1..Len(FileFoot)
  BY Frames
<1> HIDE DEF Toks
<1> DEFINE o(i) == Off(SecParts(f), i)
           n == Len(f.sections)
<1>3. /\ Tokens(f)[1] = Mark("STREAM_START") /\ Tokens(f)[2] = Mark("MAP") /\ o(1) = 0
      /\ o(n + 1) \in Nat /\ Len(Tokens(f)) = 2 + o(n + 1) + 2
      /\ Tokens(f)[2 + o(n + 1) + 1] = Mark("END")
      /\ Tokens(f)[2 + o(n + 1) + 2] = Mark("STREAM_END")
  BY <1>1, <1>2, Frames DEF LaidOut
<1>4. QED
  BY <1>3 DEF SecAt

\* A section's tokens are at SecAt, and the next section's behind them.
LEMMA SectionAt ==
  ASSUME NEW f, FileOK(f), NEW i \in DOMAIN f.sections
  PROVE  /\ Placed(Tokens(f), SecAt(f, i), SectionTokens(f.sections[i]))
         /\ SecAt(f, i + 1) = SecAt(f, i) + Len(SectionTokens(f.sections[i]))
         /\ SecAt(f, i) \in Nat /\ Len(Tokens(f)) \in Nat /\ SecAt(f, i + 1) + 2 <= Len(Tokens(f))
<1> DEFINE t == Tokens(f)
           ss == SecParts(f)
           n == Len(f.sections)
           o(m) == Off(ss, m)
<1>1. /\ LaidOut(Toks, t, FileHead, ss, FileFoot) /\ Len(ss) = n
      /\ i \in 1..n /\ n \in Nat /\ ss[i] = SectionTokens(f.sections[i])
  BY FileLayout
<1>2. ss \in Seq(Seq(Toks))
  <2>1. \A m \in 1..n : SectionTokens(f.sections[m]) \in Seq(Toks)
    BY <1>1, SectionLayout DEF FileOK
  <2> DEFINE ST == Seq(Toks)
  <2>2. DOMAIN f.sections = 1..n
    BY FileLayout
  <2>3. ss = [m \in 1..n |-> SectionTokens(f.sections[m])]
    BY <2>2 DEF SecParts
  <2> HIDE DEF ST, ss, n
  <2>4. QED
    BY <1>1, <2>1, <2>3 DEF ST
<1> HIDE DEF Toks, ss, n
<1>3. /\ t \in Seq(Toks) /\ Len(t) = 2 + o(n + 1) + 2 /\ o(n + 1) \in Nat
      /\ o(i) \in Nat /\ o(i + 1) = o(i) + Len(ss[i]) /\ o(i + 1) <= o(n + 1)
  BY <1>1, Frames DEF LaidOut
<1>4. Len(t) \in Nat /\ Placed(t, 0, t)
  <2>1. Len(t) \in Nat /\ \A c \in 1..Len(t) : 0 + c = c
    BY <1>3
  <2> HIDE DEF t
  <2>2. QED
    BY <2>1 DEF Placed
<1>5. Placed(t, 0 + Len(FileHead) + o(i), ss[i])
  <2> HIDE DEF o, t
  <2>1. FileHead \in Seq(Toks) /\ FileFoot \in Seq(Toks) /\ i \in 1..Len(ss)
    BY <1>1, Frames
  <2>2. QED
    BY <1>1, <1>2, <1>4, <2>1, Nested DEF o, PartsPlaced
<1>6. 0 + Len(FileHead) + o(i) = 2 + o(i)
  BY <1>3, Frames
<1>7. 2 + o(i + 1) = (2 + o(i)) + Len(ss[i]) /\ 2 + o(i + 1) + 2 <= Len(t) /\ 2 + o(i) \in Nat
  <2>1. Len(ss[i]) \in Nat
    BY <1>1, <1>2
  <2>2. QED
    BY <1>3, <2>1
<1>8. QED
  BY <1>1, <1>4, <1>5, <1>6, <1>7 DEF SecAt, ss

\* The entries of a section, if it has any, and its END.
LEMMA EntryAt ==
  ASSUME NEW f, FileOK(f), NEW i \in DOMAIN f.sections, f.sections[i].entries # <<>>
  PROVE  LET t == Tokens(f)
             es == f.sections[i].entries
             z == EntAt(f, i, Len(es) + 1)
         IN  /\ t[SecAt(f, i) + 4] = Mark("SEQ") /\ EntAt(f, i, 1) = SecAt(f, i) + 4
             /\ z \in Nat /\ SecAt(f, i + 1) = z + 1 /\ t[z + 1] = Mark("END")
             /\ \A j \in DOMAIN es :
                   /\ Placed(t, EntAt(f, i, j), EntryTokens(es[j]))
                   /\ EntAt(f, i, j + 1) = EntAt(f, i, j) + Len(EntryTokens(es[j]))
                   /\ EntAt(f, i, j) \in Nat
<1> DEFINE t == Tokens(f)
           sec == f.sections[i]
           es == sec.entries
           u == SectionTokens(sec)
           hd == SectionHead(sec)
           ss == EntParts(sec)
           n == Len(es)
           p == SecAt(f, i)
           o(m) == Off(ss, m)
<1>1. SectionOK(sec)
  BY DEF FileOK
<1>2. /\ ss \in Seq(Seq(Toks)) /\ Len(ss) = n /\ DOMAIN es = 1..n /\ n \in Nat
      /\ \A j \in DOMAIN es : ss[j] = EntryTokens(es[j])
  BY <1>1, EntPartsType
<1>3. LaidOut(Toks, u, hd, ss, ListFoot)
  BY <1>1, SectionLayout
<1>4. hd \in Seq(Toks) /\ Len(hd) = 4 /\ hd[4] = Mark("SEQ")
  <2>1. Mark("KEY") \in Toks /\ Mark("VALUE") \in Toks /\ Mark("SEQ") \in Toks
    BY MarkType DEF Kinds
  <2>2. Scalar(sec.key) \in Toks
    BY <1>1, ScalarType DEF SectionOK
  <2> HIDE DEF Toks, sec
  <2>3. QED
    BY <2>1, <2>2 DEF SectionHead
<1>5. Placed(t, p, u) /\ SecAt(f, i + 1) = p + Len(u) /\ Len(t) \in Nat
  BY SectionAt
<1> HIDE DEF Toks, t, u, hd, ss, n, p, sec
<1>6. PartsPlaced(t, p, u, hd, ss, ListFoot)
  BY <1>2, <1>3, <1>4, <1>5, Frames, Nested
<1>7. /\ o(1) = 0 /\ o(n + 1) \in Nat /\ Len(u) = 4 + o(n + 1) + 1
      /\ \A m \in 1..n : o(m) \in Nat /\ o(m + 1) = o(m) + Len(ss[m])
      /\ u[4] = Mark("SEQ")
  <2>1. 4 \in 1..Len(hd)
    BY <1>4
  <2>2. QED
    BY <1>2, <1>3, <1>4, <2>1, Frames DEF LaidOut
<1>8. p \in Nat /\ \A c \in 1..Len(u) : t[p + c] = u[c]
  BY <1>5 DEF Placed
<1>9. t[p + 4] = Mark("SEQ")
  <2>1. 4 \in 1..Len(u)
    BY <1>7
  <2>2. QED
    BY <1>7, <1>8, <2>1
<1>10. \A m \in 1..n : EntAt(f, i, m) = p + 4 + o(m) /\ EntAt(f, i, m + 1) = p + 4 + o(m + 1)
  BY DEF EntAt, p, ss, sec
<1>11. EntAt(f, i, 1) = p + 4 /\ EntAt(f, i, n + 1) = p + 4 + o(n + 1)
  BY <1>7, <1>8 DEF EntAt, p, ss, sec
<1>12. ASSUME NEW j \in DOMAIN es
       PROVE  /\ Placed(t, EntAt(f, i, j), EntryTokens(es[j]))
              /\ EntAt(f, i, j + 1) = EntAt(f, i, j) + Len(EntryTokens(es[j]))
              /\ EntAt(f, i, j) \in Nat
  <2>1. j \in 1..n /\ ss[j] = EntryTokens(es[j]) /\ Len(ss[j]) \in Nat
    BY <1>2
  <2>2. o(j) \in Nat /\ o(j + 1) = o(j) + Len(ss[j])
    BY <1>7, <2>1
  <2>3. Placed(t, p + 4 + o(j), ss[j])
    BY <1>2, <1>4, <1>6, <2>1 DEF PartsPlaced
  <2>4. QED
    BY <1>8, <1>10, <2>1, <2>2, <2>3
<1>13. t[p + 4 + o(n + 1) + 1] = Mark("END")
  <2>1. Placed(t, p + 4 + o(n + 1), ListFoot)
    BY <1>2, <1>4, <1>6 DEF PartsPlaced
  <2>2. 1 \in 1..Len(ListFoot)
    BY Frames
  <2>3. QED
    BY <2>1, <2>2, Frames DEF Placed
<1>14. SecAt(f, i + 1) = p + 4 + o(n + 1) + 1 /\ p + 4 + o(n + 1) \in Nat
  BY <1>5, <1>7, <1>8
<1>15. QED
  BY <1>9, <1>11, <1>12, <1>13, <1>14 DEF t, p, n, sec

\* The pairs of an entry, if it has any, and its END.
LEMMA PairIsAt ==
  ASSUME NEW f, FileOK(f), NEW i \in DOMAIN f.sections, NEW j \in DOMAIN f.sections[i].entries,
         f.sections[i].entries[j] # <<>>
  PROVE  LET t == Tokens(f)
             e == f.sections[i].entries[j]
             z == PairAt(f, i, j, Len(e) + 1)
         IN  /\ t[EntAt(f, i, j) + 2] = Mark("MAP") /\ PairAt(f, i, j, 1) = EntAt(f, i, j) + 2
             /\ z \in Nat /\ EntAt(f, i, j + 1) = z + 1 /\ t[z + 1] = Mark("END")
             /\ \A k \in DOMAIN e :
                   /\ Placed(t, PairAt(f, i, j, k), PairTokens(e[k]))
                   /\ PairAt(f, i, j, k + 1) = PairAt(f, i, j, k) + Len(PairTokens(e[k]))
                   /\ PairAt(f, i, j, k) \in Nat
<1> DEFINE t == Tokens(f)
           sec == f.sections[i]
           e == sec.entries[j]
           u == EntryTokens(e)
           ss == PairParts(e)
           n == Len(e)
           p == EntAt(f, i, j)
           o(m) == Off(ss, m)
<1>1. EntryOK(e) /\ sec.entries # <<>>
  BY DEF FileOK, SectionOK
<1>2. /\ ss \in Seq(Seq(Toks)) /\ Len(ss) = n /\ DOMAIN e = 1..n /\ n \in Nat
      /\ \A k \in DOMAIN e : ss[k] = PairTokens(e[k])
  BY <1>1, PairPartsType
<1>3. LaidOut(Toks, u, EntryHead, ss, ListFoot)
  BY <1>1, EntryLayout
<1>4. Placed(t, p, u) /\ EntAt(f, i, j + 1) = p + Len(u) /\ Len(t) \in Nat
  BY <1>1, SectionAt, EntryAt
<1> HIDE DEF Toks, t, u, ss, n, p, sec, e
<1>5. PartsPlaced(t, p, u, EntryHead, ss, ListFoot)
  BY <1>2, <1>3, <1>4, Frames, Nested
<1>6. /\ o(1) = 0 /\ o(n + 1) \in Nat /\ Len(u) = 2 + o(n + 1) + 1
      /\ \A m \in 1..n : o(m) \in Nat /\ o(m + 1) = o(m) + Len(ss[m])
      /\ u[2] = Mark("MAP")
  <2>1. 2 \in 1..Len(EntryHead)
    BY Frames
  <2>2. QED
    BY <1>2, <1>3, <2>1, Frames DEF LaidOut
<1>7. p \in Nat /\ \A c \in 1..Len(u) : t[p + c] = u[c]
  BY <1>4 DEF Placed
<1>8. t[p + 2] = Mark("MAP")
  <2>1. 2 \in 1..Len(u)
    BY <1>6
  <2>2. QED
    BY <1>6, <1>7, <2>1
<1>9. \A m \in 1..n : PairAt(f, i, j, m) = p + 2 + o(m) /\ PairAt(f, i, j, m + 1) = p + 2 + o(m + 1)
  BY DEF PairAt, p, ss, e, sec
<1>10. PairAt(f, i, j, 1) = p + 2 /\ PairAt(f, i, j, n + 1) = p + 2 + o(n + 1)
  BY <1>6, <1>7 DEF PairAt, p, ss, e, sec
<1>11. ASSUME NEW k \in DOMAIN e
       PROVE  /\ Placed(t, PairAt(f, i, j, k), PairTokens(e[k]))
              /\ PairAt(f, i, j, k + 1) = PairAt(f, i, j, k) + Len(PairTokens(e[k]))
              /\ PairAt(f, i, j, k) \in Nat
  <2>1. k \in 1..n /\ ss[k] = PairTokens(e[k]) /\ Len(ss[k]) \in Nat
    BY <1>2
  <2>2. o(k) \in Nat /\ o(k + 1) = o(k) + Len(ss[k])
    BY <1>6, <2>1
  <2>3. Placed(t, p + 2 + o(k), ss[k])
    BY <1>2, <1>5, <2>1, Frames DEF PartsPlaced
  <2>4. QED
    BY <1>7, <1>9, <2>1, <2>2, <2>3
<1>12. t[p + 2 + o(n + 1) + 1] = Mark("END")
  <2>1. Placed(t, p + 2 + o(n + 1), ListFoot)
    BY <1>2, <1>5, Frames DEF PartsPlaced
  <2>2. 1 \in 1..Len(ListFoot)
    BY Frames
  <2>3. QED
    BY <2>1, <2>2, Frames DEF Placed
<1>13. EntAt(f, i, j + 1) = p + 2 + o(n + 1) + 1 /\ p + 2 + o(n + 1) \in Nat
  BY <1>4, <1>6, <1>7
<1>14. QED
  BY <1>8, <1>10, <1>11, <1>12, <1>13 DEF t, p, n, e, sec

(* How many peers come before the parts of a file.                          *)

Entry == Seq(Pairing)

\* The mappings among the entries of a list.
LEMMA MappingsLayout ==
  ASSUME NEW es \in Seq(Entry)
  PROVE  LET o(j) == Off(MapParts(es), j)
         IN  /\ Mappings(es) \in Seq(Entry) /\ Len(Mappings(es)) = o(Len(es) + 1) /\ o(1) = 0
             /\ \A j \in 1..Len(es) :
                   /\ o(j) \in Nat
                   /\ es[j] = <<>> => o(j + 1) = o(j)
                   /\ es[j] # <<>> => /\ o(j + 1) = o(j) + 1 /\ o(j) + 1 \in 1..Len(Mappings(es))
                                      /\ Mappings(es)[o(j) + 1] = es[j]
<1> DEFINE ss == MapParts(es)
           n == Len(es)
           o(j) == Off(ss, j)
<1> HIDE DEF Entry
<1>1. \A j \in 1..n : (IF es[j] = <<>> THEN <<>> ELSE <<es[j]>>) \in Seq(Entry)
  OBVIOUS
<1>2. ss = [j \in 1..n |-> IF es[j] = <<>> THEN <<>> ELSE <<es[j]>>] /\ n \in Nat
  BY DEF MapParts
<1>3. /\ ss \in Seq(Seq(Entry)) /\ Len(ss) = n
      /\ \A j \in 1..n : ss[j] = IF es[j] = <<>> THEN <<>> ELSE <<es[j]>>
  <2> DEFINE E == Seq(Entry)
  <2> HIDE DEF ss, n, E
  <2>1. QED
    BY <1>1, <1>2 DEF E
<1>4. Mappings(es) = FlattenSeq(ss)
  BY DEF Mappings, MapParts
<1> HIDE DEF ss, n
<1>5. /\ Mappings(es) \in Seq(Entry) /\ Len(Mappings(es)) = o(n + 1) /\ o(1) = 0
      /\ \A j \in 1..n :
            /\ o(j) \in Nat /\ o(j + 1) = o(j) + Len(ss[j]) /\ o(j + 1) <= Len(Mappings(es))
            /\ \A c \in 1..Len(ss[j]) : Mappings(es)[o(j) + c] = ss[j][c]
  BY <1>3, <1>4, FlattenParts
<1>6. ASSUME NEW j \in 1..n
      PROVE  /\ es[j] = <<>> => o(j + 1) = o(j)
             /\ es[j] # <<>> => /\ o(j + 1) = o(j) + 1 /\ o(j) + 1 \in 1..Len(Mappings(es))
                                /\ Mappings(es)[o(j) + 1] = es[j]
  <2>1. o(j) \in Nat /\ Len(Mappings(es)) \in Nat
    BY <1>5
  <2>2. CASE es[j] = <<>>
    <3>1. Len(ss[j]) = 0
      BY <1>3, <2>2
    <3>2. QED
      BY <1>5, <2>1, <2>2, <3>1
  <2>3. CASE es[j] # <<>>
    <3>1. Len(ss[j]) = 1 /\ ss[j][1] = es[j] /\ 1 \in 1..Len(ss[j])
      BY <1>3, <2>3
    <3>2. /\ o(j + 1) = o(j) + 1 /\ o(j + 1) <= Len(Mappings(es))
          /\ Mappings(es)[o(j) + 1] = es[j]
      BY <1>5, <3>1
    <3>3. QED
      BY <2>1, <2>3, <3>2
  <2>4. QED
    BY <2>2, <2>3
<1>7. QED
  BY <1>5, <1>6 DEF n, ss

\* A section adds its mappings, if it is one of peers.
LEMMA SymmetricLayout ==
  ASSUME NEW f, FileOK(f)
  PROVE  /\ Symmetric(f) \in Seq(Entry) /\ Len(Symmetric(f)) = SecRank(f, Len(f.sections) + 1)
         /\ SecRank(f, 1) = 0
         /\ \A i \in DOMAIN f.sections :
               LET s == f.sections[i]
                   l == IF IsPeers(s) THEN Len(Mappings(s.entries)) ELSE 0
               IN  /\ SecRank(f, i) \in Nat /\ SecRank(f, i + 1) = SecRank(f, i) + l
                   /\ SecRank(f, i + 1) <= Len(Symmetric(f))
                   /\ \A c \in 1..l : Symmetric(f)[SecRank(f, i) + c] = Mappings(s.entries)[c]
<1> DEFINE ss == SymParts(f)
           n == Len(f.sections)
           o(i) == Off(ss, i)
           M(i) == Mappings(f.sections[i].entries)
<1>1. DOMAIN f.sections = 1..n /\ n \in Nat
  BY DEF FileOK
<1>2. \A i \in 1..n : f.sections[i].entries \in Seq(Entry)
  BY <1>1 DEF FileOK, SectionOK, Entry
<1> HIDE DEF Entry
<1>3. \A i \in 1..n : M(i) \in Seq(Entry)
  BY <1>2, MappingsLayout
<1>4. \A i \in 1..n : (IF IsPeers(f.sections[i]) THEN M(i) ELSE <<>>) \in Seq(Entry)
  BY <1>3
<1>5. ss = [i \in 1..n |-> IF IsPeers(f.sections[i]) THEN M(i) ELSE <<>>]
  BY <1>1 DEF SymParts
<1> HIDE DEF M
<1>6. /\ ss \in Seq(Seq(Entry)) /\ Len(ss) = n
      /\ \A i \in 1..n : ss[i] = IF IsPeers(f.sections[i]) THEN M(i) ELSE <<>>
  <2> DEFINE E == Seq(Entry)
  <2> HIDE DEF ss, n, E
  <2>1. QED
    BY <1>1, <1>4, <1>5 DEF E
<1>7. Symmetric(f) = FlattenSeq(ss)
  BY DEF Symmetric, SymParts, IsPeers
<1> HIDE DEF ss, n
<1>8. /\ Symmetric(f) \in Seq(Entry) /\ Len(Symmetric(f)) = o(n + 1) /\ o(1) = 0
      /\ \A i \in 1..n :
            /\ o(i) \in Nat /\ o(i + 1) = o(i) + Len(ss[i]) /\ o(i + 1) <= Len(Symmetric(f))
            /\ \A c \in 1..Len(ss[i]) : Symmetric(f)[o(i) + c] = ss[i][c]
  BY <1>6, <1>7, FlattenParts
<1>9. \A i : SecRank(f, i) = o(i)
  BY DEF SecRank, ss
<1>10. ASSUME NEW i \in DOMAIN f.sections
       PROVE  LET l == IF IsPeers(f.sections[i]) THEN Len(M(i)) ELSE 0
              IN  /\ o(i) \in Nat /\ o(i + 1) = o(i) + l
                  /\ o(i + 1) <= Len(Symmetric(f))
                  /\ \A c \in 1..l : Symmetric(f)[o(i) + c] = M(i)[c]
  <2>1. i \in 1..n
    BY <1>1
  <2>2. CASE IsPeers(f.sections[i])
    BY <1>6, <1>8, <2>1, <2>2
  <2>3. CASE ~IsPeers(f.sections[i])
    BY <1>6, <1>8, <2>1, <2>3
  <2>4. QED
    BY <2>2, <2>3
<1>11. QED
  BY <1>8, <1>9, <1>10 DEF M, n

\* How the number of peers before an entry, or a section, goes up.
LEMMA RankFacts ==
  ASSUME NEW f, FileOK(f), NEW i \in DOMAIN f.sections
  PROVE  LET s == f.sections[i]
             es == s.entries
         IN  /\ Rank(f, i, 1) = SecRank(f, i) /\ Rank(f, i, Len(es) + 1) = SecRank(f, i + 1)
             /\ SecRank(f, i) \in Nat /\ SecRank(f, i + 1) \in Nat
             /\ ~IsPeers(s) => SecRank(f, i + 1) = SecRank(f, i)
             /\ es = <<>> => SecRank(f, i + 1) = SecRank(f, i)
             /\ \A j \in DOMAIN es :
                   /\ Rank(f, i, j) \in Nat
                   /\ ~IsPeers(s) \/ es[j] = <<>> => Rank(f, i, j + 1) = Rank(f, i, j)
                   /\ IsPeers(s) /\ es[j] # <<>> =>
                         /\ Rank(f, i, j + 1) = Rank(f, i, j) + 1
                         /\ Symmetric(f)[Rank(f, i, j) + 1] = es[j]
<1> DEFINE s == f.sections[i]
           es == s.entries
           n == Len(es)
           o(j) == Off(MapParts(es), j)
           q == SecRank(f, i)
           r == SecRank(f, i + 1)
           M == Mappings(es)
           y == Symmetric(f)
<1>1. es \in Seq(Entry) /\ DOMAIN es = 1..n /\ n \in Nat
  BY DEF FileOK, SectionOK, Entry
<1>2. /\ M \in Seq(Entry) /\ Len(M) = o(n + 1) /\ o(1) = 0
      /\ \A j \in 1..n :
            /\ o(j) \in Nat
            /\ es[j] = <<>> => o(j + 1) = o(j)
            /\ es[j] # <<>> => /\ o(j + 1) = o(j) + 1 /\ o(j) + 1 \in 1..Len(M)
                               /\ M[o(j) + 1] = es[j]
  BY <1>1, MappingsLayout
<1>3. /\ IsPeers(s) => r = q + Len(M) /\ \A c \in 1..Len(M) : y[q + c] = M[c]
      /\ ~IsPeers(s) => r = q + 0
  BY SymmetricLayout
<1>4. \A j : Rank(f, i, j) = q + IF IsPeers(s) THEN o(j) ELSE 0
  BY DEF Rank
<1>5. q \in Nat /\ Len(M) \in Nat
  BY <1>2, SymmetricLayout
<1> HIDE DEF Entry, q, r, o, M, y
<1>6. Rank(f, i, 1) = q
  BY <1>2, <1>4, <1>5
<1>7. Rank(f, i, n + 1) = r
  BY <1>2, <1>3, <1>4, <1>5
<1>8. r \in Nat /\ (~IsPeers(s) => r = q)
  BY <1>3, <1>5
<1>9. es = <<>> => r = q
  <2>1. es = <<>> => o(n + 1) = 0
    BY <1>1, <1>2
  <2>2. QED
    BY <1>2, <1>3, <1>5, <1>8, <2>1
<1>10. ASSUME NEW j \in DOMAIN es
       PROVE  /\ Rank(f, i, j) \in Nat
              /\ ~IsPeers(s) \/ es[j] = <<>> => Rank(f, i, j + 1) = Rank(f, i, j)
              /\ IsPeers(s) /\ es[j] # <<>> =>
                    /\ Rank(f, i, j + 1) = Rank(f, i, j) + 1
                    /\ y[Rank(f, i, j) + 1] = es[j]
  <2>1. j \in 1..n /\ o(j) \in Nat
    BY <1>1, <1>2
  <2>2. Rank(f, i, j) \in Nat
    BY <1>4, <1>5, <2>1
  <2>3. ~IsPeers(s) => Rank(f, i, j + 1) = Rank(f, i, j)
    BY <1>4
  <2>4. IsPeers(s) => Rank(f, i, j) = q + o(j) /\ Rank(f, i, j + 1) = q + o(j + 1)
    BY <1>4
  <2>5. es[j] = <<>> => Rank(f, i, j + 1) = Rank(f, i, j)
    BY <1>2, <2>1, <2>3, <2>4
  <2>6. ASSUME IsPeers(s), es[j] # <<>>
        PROVE  Rank(f, i, j + 1) = Rank(f, i, j) + 1 /\ y[Rank(f, i, j) + 1] = es[j]
    <3>1. o(j + 1) = o(j) + 1 /\ o(j) + 1 \in 1..Len(M) /\ M[o(j) + 1] = es[j]
      BY <1>2, <2>1, <2>6
    <3>2. q + (o(j) + 1) = q + o(j) + 1
      BY <1>5, <2>1
    <3>3. y[q + (o(j) + 1)] = M[o(j) + 1]
      BY <1>3, <2>6, <3>1
    <3>4. QED
      BY <2>4, <2>6, <3>1, <3>2, <3>3
  <2>7. QED
    BY <2>2, <2>3, <2>5, <2>6
<1>11. QED
  BY <1>5, <1>6, <1>7, <1>8, <1>9, <1>10 DEF q, r, y

(* What the pairs of an entry make of a peer.                               *)

\* With every key once, a key has the value of its pair, ...
LEMMA ValueIs ==
  ASSUME NEW t, NEW i \in DOMAIN t, \A k, l \in DOMAIN t : k # l => t[k][1] # t[l][1]
  PROVE  /\ t[i][2] # "empty" => Value(t, t[i][1]) = t[i][2]
         /\ t[i][2] = "empty" => Value(t, t[i][1]) = Unset
<1>1. \A k \in DOMAIN t : t[k][1] = t[i][1] => k = i
  OBVIOUS
<1>2. (CHOOSE k \in DOMAIN t : t[k][1] = t[i][1]) = i
  BY <1>1
<1>3. QED
  BY <1>1, <1>2 DEF Value

\* ... and an absent key none.
LEMMA ValueNone ==
  ASSUME NEW t, NEW k, \A i \in DOMAIN t : t[i][1] # k
  PROVE  Value(t, k) = Unset
  BY DEF Value

\* Only the value of its own key is changed by a pair.
LEMMA ValueStep ==
  ASSUME NEW e \in Seq(Pairing), RegularPeer(e), NEW k \in 2..Len(e), NEW x
  PROVE  LET s == SubSeq(e, 1, k)
             r == SubSeq(e, 1, k - 1)
         IN  /\ e[k][1] = x => Value(r, x) = Unset
             /\ e[k][1] = x /\ e[k][2] # "empty" => Value(s, x) = e[k][2]
             /\ e[k][1] # x \/ e[k][2] = "empty" => Value(s, x) = Value(r, x)
<1> DEFINE s == SubSeq(e, 1, k)
           r == SubSeq(e, 1, k - 1)
<1>1. /\ DOMAIN s = 1..k /\ \A i \in 1..k : s[i] = e[i]
      /\ DOMAIN r = 1..k - 1 /\ \A i \in 1..k - 1 : r[i] = e[i]
      /\ DOMAIN e = 1..Len(e) /\ k \in Nat /\ 2 <= k /\ k <= Len(e)
  OBVIOUS
<1>2. \A i, l \in 1..k : i # l => e[i][1] # e[l][1]
  BY <1>1 DEF RegularPeer
<1> HIDE DEF s, r
<1>3. /\ \A i, l \in DOMAIN s : i # l => s[i][1] # s[l][1]
      /\ \A i, l \in DOMAIN r : i # l => r[i][1] # r[l][1]
      /\ k \in 1..k /\ 1..k - 1 \subseteq 1..k /\ k \notin 1..k - 1
      /\ \A i \in 1..k : i = k \/ i \in 1..k - 1
  BY <1>1, <1>2
<1>4. CASE e[k][1] = x
  <2>1. \A i \in DOMAIN r : r[i][1] # x
    BY <1>1, <1>2, <1>3, <1>4
  <2>2. Value(r, x) = Unset
    BY <2>1, ValueNone
  <2>3. s[k] = e[k] /\ k \in DOMAIN s
    BY <1>1, <1>3
  <2>4. /\ e[k][2] # "empty" => Value(s, x) = e[k][2]
        /\ e[k][2] = "empty" => Value(s, x) = Unset
    BY <1>3, <1>4, <2>3, ValueIs
  <2>5. QED
    BY <1>4, <2>2, <2>4 DEF s, r
<1>5. CASE e[k][1] # x
  <2>1. CASE \E i \in 1..k - 1 : e[i][1] = x
    <3>1. PICK i \in 1..k - 1 : e[i][1] = x
      BY <2>1
    <3>2. s[i] = e[i] /\ i \in DOMAIN s /\ r[i] = e[i] /\ i \in DOMAIN r
      BY <1>1, <1>3
    <3>3. /\ e[i][2] # "empty" => Value(s, x) = e[i][2]
          /\ e[i][2] = "empty" => Value(s, x) = Unset
      BY <1>3, <3>1, <3>2, ValueIs
    <3>4. /\ e[i][2] # "empty" => Value(r, x) = e[i][2]
          /\ e[i][2] = "empty" => Value(r, x) = Unset
      BY <1>3, <3>1, <3>2, ValueIs
    <3>5. QED
      BY <1>5, <3>3, <3>4 DEF s, r
  <2>2. CASE \A i \in 1..k - 1 : e[i][1] # x
    <3>1. (\A i \in DOMAIN r : r[i][1] # x) /\ (\A i \in DOMAIN s : s[i][1] # x)
      BY <1>1, <1>3, <1>5, <2>2
    <3>2. Value(r, x) = Unset /\ Value(s, x) = Unset
      BY <3>1, ValueNone
    <3>3. QED
      BY <1>5, <3>2 DEF s, r
  <2>3. QED
    BY <2>1, <2>2
<1>6. QED
  BY <1>4, <1>5

\* A peer begins with its name ...
LEMMA FirstField ==
  ASSUME NEW e \in Seq(Pairing), e # <<>>, RegularPeer(e), NEW n
  PROVE  Described(SubSeq(e, 1, 1), n) = NewPeer(e[1][2], n)
<1> DEFINE s == SubSeq(e, 1, 1)
<1>1. DOMAIN s = 1..1 /\ s[1] = e[1]
  OBVIOUS
<1>2. e[1][1] = "name" /\ e[1][2] # "empty"
  BY DEF RegularPeer
<1> HIDE DEF s
<1>3. Value(s, "name") = e[1][2]
  BY <1>1, <1>2, ValueIs
<1>4. \A x \in {"type", "threads", "map-interface", "peer-ip", "interface"} : Value(s, x) = Unset
  <2>1. ASSUME NEW x \in {"type", "threads", "map-interface", "peer-ip", "interface"}
        PROVE  Value(s, x) = Unset
    <3>1. \A i \in DOMAIN s : s[i][1] # x
      BY <1>1, <1>2
    <3>2. QED
      BY <3>1, ValueNone
  <2>2. QED
    BY <2>1
<1>5. Described(s, n) = NewPeer(e[1][2], n)
  BY <1>3, <1>4 DEF Described, NewPeer, Direction, Unset
<1>6. QED
  BY <1>5 DEF s

\* ... and is what its pairs so far say.
LEMMA NextField ==
  ASSUME NEW e \in Seq(Pairing), RegularPeer(e), NEW k \in 2..Len(e), NEW n
  PROVE  LET d == Described(SubSeq(e, 1, k), n)
             c == Described(SubSeq(e, 1, k - 1), n)
         IN  /\ e[k][1] # "name"
             /\ e[k][2] = "empty" => d = c
             /\ e[k][2] # "empty" => d = SetField(c, e[k][1], e[k][2])
<1> DEFINE s == SubSeq(e, 1, k)
           r == SubSeq(e, 1, k - 1)
           x == e[k][1]
           v == e[k][2]
<1>1. \A y : /\ x = y => Value(r, y) = Unset
             /\ x = y /\ v # "empty" => Value(s, y) = v
             /\ x # y \/ v = "empty" => Value(s, y) = Value(r, y)
  BY ValueStep
<1>2. /\ DOMAIN e = 1..Len(e) /\ 1 \in 1..Len(e) /\ k \in 1..Len(e) /\ k # 1
      /\ \A i \in 1..k - 1 : i \in 1..Len(e) /\ i < k
      /\ DOMAIN r = 1..k - 1 /\ \A i \in 1..k - 1 : r[i] = e[i]
  OBVIOUS
<1>3. x # "name" /\ v # Unset
  BY <1>2 DEF RegularPeer
<1>4. x = "type" => Value(r, "map-interface") = Unset
  <2>1. x = "type" => \A i \in DOMAIN r : r[i][1] # "map-interface"
    BY <1>2 DEF RegularPeer
  <2>2. QED
    BY <2>1, ValueNone
<1> HIDE DEF s, r, x, v
<1>5. v = "empty" => Described(s, n) = Described(r, n)
  BY <1>1 DEF Described
<1>6. ASSUME v # "empty" PROVE Described(s, n) = SetField(Described(r, n), x, v)
  <2>1. \A y : x # y => Value(s, y) = Value(r, y)
    BY <1>1
  <2>2. Value(r, x) = Unset /\ Value(s, x) = v
    BY <1>1, <1>6
  <2>3. CASE x = "type"
    BY <1>4, <2>1, <2>2, <2>3 DEF Described, SetField, Direction, Unset
  <2>4. CASE x = "threads"
    BY <1>3, <2>1, <2>2, <2>4 DEF Described, SetField
  <2>5. CASE x = "map-interface"
    BY <1>3, <2>1, <2>2, <2>5 DEF Described, SetField
  <2>6. CASE x = "peer-ip"
    BY <2>1, <2>2, <2>6 DEF Described, SetField
  <2>7. CASE x = "interface"
    BY <2>1, <2>2, <2>7 DEF Described, SetField
  <2>8. CASE x \notin {"type", "threads", "map-interface", "peer-ip", "interface"}
    <3>1. \A y \in {"name", "type", "threads", "map-interface", "peer-ip", "interface"} : Value(s, y) = Value(r, y)
      BY <1>3, <2>1, <2>8
    <3>2. Described(s, n) = Described(r, n)
      BY <3>1 DEF Described
    <3>3. SetField(Described(r, n), x, v) = Described(r, n)
      BY <2>8 DEF SetField
    <3>4. QED
      BY <3>2, <3>3
  <2>9. QED
    BY <2>3, <2>4, <2>5, <2>6, <2>7, <2>8
<1>7. QED
  BY <1>3, <1>5, <1>6 DEF s, r, x, v

\* All pairs of an entry are the entry.
LEMMA WholeEntry == ASSUME NEW e \in Seq(Pairing) PROVE SubSeq(e, 1, Len(e)) = e
  BY SubSeqFull

(* The tokens at the places where load_config can be.                       *)

\* A regular file is being read.
Loading == file.good = All /\ Regular(file) /\ toks = Tokens(file) /\ LoadInv

\* Tok reads the tokens that are placed at p.
LEMMA TokPlaced ==
  ASSUME toks = Tokens(file), Len(toks) \in Nat, DOMAIN toks = 1..Len(toks),
         NEW p, NEW u, Placed(toks, p, u), Len(u) \in Nat, NEW c \in 1..Len(u)
  PROVE  Tok(p + c) = u[c] /\ p + c \in 1..Len(toks)
<1>1. p + c \in 1..Len(toks)
  BY DEF Placed
<1>2. QED
  BY <1>1 DEF Tok, Placed

\* What loading a file of that layout says of its parts and tokens.
LEMMA LoadingFacts ==
  ASSUME Loading
  PROVE  /\ FileOK(file) /\ Len(toks) \in Nat /\ DOMAIN toks = 1..Len(toks) /\ toks = Tokens(file)
         /\ DOMAIN file.sections = 1..Len(file.sections) /\ Len(file.sections) \in Nat
<1>1. FileOK(file) /\ toks = Tokens(file)
  BY RegularFileOK DEF Loading
<1>2. toks \in Seq(Token)
  BY DEF Loading, LoadInv, TokInv
<1>3. Len(toks) \in Nat /\ DOMAIN toks = 1..Len(toks)
  <2> HIDE DEF Token
  <2>1. QED
    BY <1>2
<1>4. QED
  BY <1>1, <1>3, FileLayout

\* The types of tokens.
LEMMA MarkTypes ==
  /\ Mark("KEY").type = "KEY" /\ Mark("VALUE").type = "VALUE" /\ Mark("SEQ").type = "SEQ"
  /\ Mark("MAP").type = "MAP" /\ Mark("ENTRY").type = "ENTRY" /\ Mark("END").type = "END"
  /\ Mark("STREAM_START").type = "STREAM_START" /\ Mark("STREAM_END").type = "STREAM_END"
  /\ \A v : Scalar(v).type = "SCALAR" /\ Scalar(v).value = v
  BY DEF Mark, Scalar

\* The tokens at both ends of a file.
LEMMA FileToks ==
  ASSUME Loading
  PROVE  LET z == SecAt(file, Len(file.sections) + 1)
         IN  /\ Tok(1).type = "STREAM_START" /\ Tok(2).type = "MAP" /\ SecAt(file, 1) = 2
             /\ z \in Nat /\ Len(toks) = z + 2
             /\ Tok(z + 1).type = "END" /\ Tok(z + 2).type = "STREAM_END"
<1> DEFINE z == SecAt(file, Len(file.sections) + 1)
<1>1. /\ toks[1] = Mark("STREAM_START") /\ toks[2] = Mark("MAP") /\ SecAt(file, 1) = 2
      /\ z \in Nat /\ Len(toks) = z + 2
      /\ toks[z + 1] = Mark("END") /\ toks[z + 2] = Mark("STREAM_END")
  BY LoadingFacts, FileAt
<1> HIDE DEF z
<1>2. /\ 1 \in DOMAIN toks /\ 2 \in DOMAIN toks /\ z + 1 \in DOMAIN toks /\ z + 2 \in DOMAIN toks
  BY <1>1, LoadingFacts
<1>3. QED
  BY <1>1, <1>2, MarkTypes DEF Tok, z

\* The tokens at both ends of a section.
LEMMA SectionToks ==
  ASSUME Loading, NEW i \in DOMAIN file.sections
  PROVE  LET s == file.sections[i]
             p == SecAt(file, i)
         IN  /\ p \in Nat /\ SecAt(file, i + 1) \in Nat /\ SecAt(file, i + 1) + 2 <= Len(toks)
             /\ Tok(p + 1).type = "KEY" /\ Tok(p + 2) = Scalar(s.key) /\ Tok(p + 3).type = "VALUE"
             /\ s.entries = <<>> => SecAt(file, i + 1) = p + 4 /\ Tok(p + 4).type = "SCALAR"
             /\ s.entries # <<>> =>
                   /\ Tok(p + 4).type = "SEQ" /\ Tok(SecAt(file, i + 1)).type = "END"
                   /\ EntAt(file, i, 1) = p + 4
                   /\ SecAt(file, i + 1) = EntAt(file, i, Len(s.entries) + 1) + 1
<1> DEFINE s == file.sections[i]
           u == SectionTokens(s)
           p == SecAt(file, i)
           z == SecAt(file, i + 1)
<1>1. /\ Placed(toks, p, u) /\ z = p + Len(u) /\ p \in Nat
      /\ z + 2 <= Len(toks) /\ Len(toks) \in Nat /\ DOMAIN toks = 1..Len(toks) /\ toks = Tokens(file)
  BY LoadingFacts, SectionAt
<1>2. /\ u \in Seq(Toks)
      /\ u[1] = Mark("KEY") /\ u[2] = Scalar(s.key) /\ u[3] = Mark("VALUE")
      /\ s.entries = <<>> => Len(u) = 4 /\ u[4] = Scalar("x")
  BY LoadingFacts, SectionLayout DEF FileOK
<1>3. ASSUME s.entries # <<>>
      PROVE  /\ toks[p + 4] = Mark("SEQ") /\ EntAt(file, i, 1) = p + 4
             /\ EntAt(file, i, Len(s.entries) + 1) \in Nat
             /\ z = EntAt(file, i, Len(s.entries) + 1) + 1
             /\ toks[EntAt(file, i, Len(s.entries) + 1) + 1] = Mark("END")
             /\ EntAt(file, i, 1) <= EntAt(file, i, Len(s.entries) + 1)
  <2> DEFINE y == EntAt(file, i, Len(s.entries) + 1)
  <2>1. /\ toks[p + 4] = Mark("SEQ") /\ EntAt(file, i, 1) = p + 4
        /\ y \in Nat /\ z = y + 1 /\ toks[y + 1] = Mark("END")
    BY <1>1, <1>3, LoadingFacts, EntryAt
  <2>2. Len(u) >= 5
    <3>1. /\ LaidOut(Toks, u, SectionHead(s), EntParts(s), ListFoot)
      BY <1>3, LoadingFacts, SectionLayout DEF FileOK
    <3>2. Len(SectionHead(s)) = 4
      BY DEF SectionHead
    <3>3. Len(u) = 4 + Off(EntParts(s), Len(EntParts(s)) + 1) + 1
          /\ Off(EntParts(s), Len(EntParts(s)) + 1) \in Nat
      BY <3>1, <3>2, Frames DEF LaidOut
    <3>4. QED
      BY <3>3
  <2> HIDE DEF y, z, u
  <2>3. EntAt(file, i, 1) <= y
    <3>1. Len(u) \in Nat
      <4> HIDE DEF Toks
      <4>1. QED
        BY <1>2
    <3>2. QED
      BY <1>1, <2>1, <2>2, <3>1
  <2>4. QED
    BY <2>1, <2>3 DEF y
<1>4. Len(u) \in Nat
  <2> HIDE DEF Toks, u
  <2>1. QED
    BY <1>2
<1>5. Len(u) >= 4
  <2>1. CASE s.entries = <<>>
    BY <1>2, <2>1
  <2>2. CASE s.entries # <<>>
    <3> DEFINE y == EntAt(file, i, Len(s.entries) + 1)
    <3>1. EntAt(file, i, 1) = p + 4 /\ y \in Nat /\ z = y + 1 /\ EntAt(file, i, 1) <= y
      BY <1>3, <2>2
    <3> HIDE DEF y, z, u
    <3>2. QED
      BY <1>1, <1>4, <3>1
  <2>3. QED
    BY <2>1, <2>2
<1> HIDE DEF u, z, s
<1>6. 1 \in 1..Len(u) /\ 2 \in 1..Len(u) /\ 3 \in 1..Len(u) /\ 4 \in 1..Len(u)
  BY <1>4, <1>5
<1>7. Tok(p + 1) = u[1] /\ Tok(p + 2) = u[2] /\ Tok(p + 3) = u[3] /\ Tok(p + 4) = u[4]
  BY <1>1, <1>4, <1>6, TokPlaced
<1>8. Tok(p + 1).type = "KEY" /\ Tok(p + 2) = Scalar(s.key) /\ Tok(p + 3).type = "VALUE"
  BY <1>2, <1>7, MarkTypes
<1>9. s.entries = <<>> => z = p + 4 /\ Tok(p + 4).type = "SCALAR"
  <2>1. Scalar("x").type = "SCALAR"
    BY MarkTypes
  <2>2. s.entries = <<>> => Len(u) = 4 /\ Tok(p + 4) = Scalar("x")
    BY <1>2, <1>7
  <2>3. QED
    BY <1>1, <2>1, <2>2
<1>10. z \in Nat
  BY <1>1, <1>4
<1>11. ASSUME s.entries # <<>>
       PROVE  Tok(p + 4).type = "SEQ" /\ Tok(z).type = "END"
  <2>1. p + 4 \in DOMAIN toks /\ z \in DOMAIN toks
    BY <1>1, <1>4, <1>5
  <2>2. toks[p + 4] = Mark("SEQ") /\ toks[z] = Mark("END")
    BY <1>3, <1>11
  <2>3. QED
    BY <2>1, <2>2, MarkTypes DEF Tok
<1>12. QED
  BY <1>1, <1>3, <1>8, <1>9, <1>10, <1>11 DEF z, s

\* The tokens at both ends of an entry.
LEMMA EntryToks ==
  ASSUME Loading, NEW i \in DOMAIN file.sections, NEW j \in DOMAIN file.sections[i].entries
  PROVE  LET e == file.sections[i].entries[j]
             p == EntAt(file, i, j)
             z == EntAt(file, i, j + 1)
         IN  /\ p \in Nat /\ z \in Nat /\ p + 2 <= z /\ z <= Len(toks)
             /\ Tok(p + 1).type = "ENTRY"
             /\ e = <<>> => z = p + 2 /\ Tok(p + 2).type = "SCALAR"
             /\ e # <<>> => /\ Tok(p + 2).type = "MAP" /\ PairAt(file, i, j, 1) = p + 2
                            /\ PairAt(file, i, j, Len(e) + 1) \in Nat
                            /\ z = PairAt(file, i, j, Len(e) + 1) + 1 /\ Tok(z).type = "END"
<1> DEFINE e == file.sections[i].entries[j]
           u == EntryTokens(e)
           p == EntAt(file, i, j)
           z == EntAt(file, i, j + 1)
<1>1. EntryOK(e) /\ file.sections[i].entries # <<>>
  BY LoadingFacts DEF FileOK, SectionOK
<1>2. /\ Placed(toks, p, u) /\ z = p + Len(u) /\ p \in Nat
      /\ Len(toks) \in Nat /\ DOMAIN toks = 1..Len(toks) /\ toks = Tokens(file)
  BY <1>1, LoadingFacts, EntryAt
<1>3. /\ u \in Seq(Toks) /\ u[1] = Mark("ENTRY")
      /\ e = <<>> => Len(u) = 2 /\ u[2] = Scalar("x")
  BY <1>1, EntryLayout
<1>4. Len(u) \in Nat
  <2> HIDE DEF Toks, u
  <2>1. QED
    BY <1>3
<1>5. p + Len(u) <= Len(toks)
  BY <1>2 DEF Placed
<1>6. ASSUME e # <<>>
      PROVE  /\ toks[p + 2] = Mark("MAP") /\ PairAt(file, i, j, 1) = p + 2
             /\ PairAt(file, i, j, Len(e) + 1) \in Nat
             /\ z = PairAt(file, i, j, Len(e) + 1) + 1 /\ toks[z] = Mark("END")
             /\ Len(u) >= 2
  <2>1. /\ toks[p + 2] = Mark("MAP") /\ PairAt(file, i, j, 1) = p + 2
        /\ PairAt(file, i, j, Len(e) + 1) \in Nat
        /\ z = PairAt(file, i, j, Len(e) + 1) + 1 /\ toks[z] = Mark("END")
    BY <1>2, <1>6, LoadingFacts, PairIsAt
  <2>2. LaidOut(Toks, u, EntryHead, PairParts(e), ListFoot)
    BY <1>1, <1>6, EntryLayout
  <2>3. Len(u) = 2 + Off(PairParts(e), Len(PairParts(e)) + 1) + 1
        /\ Off(PairParts(e), Len(PairParts(e)) + 1) \in Nat
    BY <2>2, Frames DEF LaidOut
  <2>4. QED
    BY <2>1, <2>3
<1> HIDE DEF u, z, e
<1>7. 1 \in 1..Len(u) /\ 2 \in 1..Len(u)
  BY <1>3, <1>4, <1>6
<1>8. Tok(p + 1) = u[1] /\ Tok(p + 2) = u[2]
  BY <1>2, <1>4, <1>7, TokPlaced
<1>9. Tok(p + 1).type = "ENTRY"
  BY <1>3, <1>8, MarkTypes
<1>10. e = <<>> => z = p + 2 /\ Tok(p + 2).type = "SCALAR"
  <2>1. Scalar("x").type = "SCALAR"
    BY MarkTypes
  <2>2. QED
    BY <1>2, <1>3, <1>8, <2>1
<1>11. z \in Nat /\ p + 2 <= z /\ z <= Len(toks)
  BY <1>2, <1>4, <1>5, <1>7
<1>12. ASSUME e # <<>> PROVE Tok(p + 2).type = "MAP" /\ Tok(z).type = "END"
  <2>1. p + 2 \in DOMAIN toks /\ z \in DOMAIN toks
    BY <1>2, <1>11
  <2>2. QED
    BY <1>6, <1>12, <2>1, MarkTypes DEF Tok
<1>13. QED
  BY <1>2, <1>6, <1>9, <1>10, <1>11, <1>12 DEF z, e

\* At the k-th pair of an entry.
PairRead(i, j, k) ==
    LET e == file.sections[i].entries[j]
        p == PairAt(file, i, j, k)
        z == PairAt(file, i, j, k + 1)
    IN  /\ Len(PairTokens(e[k])) = IF e[k][2] = "empty" THEN 3 ELSE 4
        /\ p \in Nat /\ z = p + Len(PairTokens(e[k])) /\ z + 1 <= Len(toks)
        /\ Tok(p + 1).type = "KEY" /\ Tok(p + 2) = Scalar(e[k][1]) /\ Tok(p + 3).type = "VALUE"
        /\ e[k][2] # "empty" => Tok(p + 4) = Scalar(e[k][2])
        /\ k = Len(e) => EntAt(file, i, j + 1) = z + 1
        /\ Tok(z + 1).type = IF k = Len(e) THEN "END" ELSE "KEY"

\* What each token of a pair is read as.
LEMMA PairToks ==
  ASSUME Loading, NEW i \in DOMAIN file.sections, NEW j \in DOMAIN file.sections[i].entries,
         NEW k \in DOMAIN file.sections[i].entries[j]
  PROVE  PairRead(i, j, k)
<1> DEFINE e == file.sections[i].entries[j]
           P(l) == PairAt(file, i, j, l)
           n == Len(e)
<1>1. /\ EntryOK(e) /\ e # <<>> /\ DOMAIN e = 1..n /\ n \in Nat
  <2>1. EntryOK(e)
    BY LoadingFacts DEF FileOK, SectionOK
  <2>2. QED
    BY <2>1, PairPartsType
<1>2. /\ toks = Tokens(file) /\ Len(toks) \in Nat /\ DOMAIN toks = 1..Len(toks)
      /\ P(n + 1) \in Nat /\ EntAt(file, i, j + 1) = P(n + 1) + 1 /\ toks[P(n + 1) + 1] = Mark("END")
      /\ \A l \in 1..n : /\ Placed(toks, P(l), PairTokens(e[l]))
                         /\ P(l + 1) = P(l) + Len(PairTokens(e[l])) /\ P(l) \in Nat
  BY <1>1, LoadingFacts, PairIsAt
<1>3. \A l \in 1..n :
         LET u == PairTokens(e[l])
         IN  /\ u \in Seq(Toks) /\ Len(u) = IF e[l][2] = "empty" THEN 3 ELSE 4
             /\ u[1] = Mark("KEY") /\ u[2] = Scalar(e[l][1]) /\ u[3] = Mark("VALUE")
             /\ e[l][2] # "empty" => u[4] = Scalar(e[l][2])
  <2>1. ASSUME NEW l \in 1..n PROVE e[l] \in Pairing /\ e[l][2] # "nested"
    <3> HIDE DEF e, Pairing
    <3>1. QED
      BY <1>1 DEF EntryOK
  <2>2. QED
    BY <2>1, PairLayout
<1> HIDE DEF e, P, n
<1>4. \A l \in 1..n : Len(PairTokens(e[l])) \in {3, 4}
  BY <1>3
<1>5. ASSUME NEW l \in 1..n
      PROVE  /\ Tok(P(l) + 1).type = "KEY" /\ Tok(P(l) + 2) = Scalar(e[l][1])
             /\ Tok(P(l) + 3).type = "VALUE"
             /\ e[l][2] # "empty" => Tok(P(l) + 4) = Scalar(e[l][2])
             /\ P(l) + 1 \in 1..Len(toks)
  <2> DEFINE u == PairTokens(e[l])
  <2>1. /\ Placed(toks, P(l), u) /\ Len(u) \in Nat
        /\ 1 \in 1..Len(u) /\ 2 \in 1..Len(u) /\ 3 \in 1..Len(u)
        /\ e[l][2] # "empty" => 4 \in 1..Len(u)
    BY <1>2, <1>3
  <2>2. /\ u[1] = Mark("KEY") /\ u[2] = Scalar(e[l][1]) /\ u[3] = Mark("VALUE")
        /\ e[l][2] # "empty" => u[4] = Scalar(e[l][2])
    BY <1>3
  <2> HIDE DEF u
  <2>3. /\ Tok(P(l) + 1) = u[1] /\ Tok(P(l) + 2) = u[2] /\ Tok(P(l) + 3) = u[3]
        /\ P(l) + 1 \in 1..Len(toks)
        /\ e[l][2] # "empty" => Tok(P(l) + 4) = u[4]
    BY <1>2, <2>1, TokPlaced
  <2>4. QED
    BY <2>2, <2>3, MarkTypes
<1>6. k \in 1..n /\ k \in Nat
  BY <1>1 DEF e
<1>7. CASE k = n
  <2>1. /\ P(k + 1) \in Nat /\ EntAt(file, i, j + 1) = P(k + 1) + 1
        /\ toks[P(k + 1) + 1] = Mark("END")
    BY <1>2, <1>7
  <2>2. P(k + 1) + 1 <= Len(toks)
    <3>1. EntAt(file, i, j + 1) <= Len(toks)
      BY EntryToks
    <3>2. QED
      BY <2>1, <3>1
  <2>3. Tok(P(k + 1) + 1).type = "END"
    <3>1. P(k + 1) + 1 \in DOMAIN toks
      BY <1>2, <2>1, <2>2
    <3>2. QED
      BY <2>1, <3>1, MarkTypes DEF Tok
  <2>4. QED
    BY <1>2, <1>3, <1>5, <1>6, <1>7, <2>1, <2>2, <2>3 DEF P, n, e, PairRead
<1>8. CASE k # n
  <2>1. k + 1 \in 1..n
    BY <1>1, <1>6, <1>8
  <2>2. Tok(P(k + 1) + 1).type = "KEY" /\ P(k + 1) + 1 \in 1..Len(toks)
    BY <1>5, <2>1
  <2>3. P(k + 1) + 1 <= Len(toks)
    BY <1>2, <2>2
  <2>4. QED
    BY <1>2, <1>3, <1>5, <1>6, <1>8, <2>2, <2>3 DEF P, n, e, PairRead
<1>9. QED
  BY <1>7, <1>8

(* The steps by which the loops go on over one token.                       *)

Moved(to) == pc' = to /\ pos' = Scan(1) /\ UNCHANGED <<file, toks, state>>

\* Which token makes which loop take it: the outer loop, ...
LEMMA OuterMoves ==
  ASSUME Next, pc = "outer"
  PROVE  /\ Tok(pos).type = "MAP" => Moved("skip")
         /\ Tok(pos).type \notin {"MAP", "KEY", "STREAM_END"} => Moved("outer")
         /\ Tok(pos).type = "STREAM_END" => Finish
  BY DEF Next, Moved, Is, Go, state,
         OpenFails, Open, Finish, SkipStart, SkipKey, SkipToken, Section, NoSection, OuterToken,
         EntryStart, EntryToken, PairsDone, PairSkipped, Pair, PairDies

\* ... the loop that skips a mapping, ...
LEMMA SkipMoves ==
  ASSUME Next, pc = "skip"
  PROVE  /\ Tok(pos).type = "END" => Moved("outer")
         /\ Tok(pos).type \notin {"KEY", "END"} => Moved("skip")
  BY DEF Next, Moved, Is, Go, state,
         OpenFails, Open, Finish, SkipStart, SkipKey, SkipToken, Section, NoSection, OuterToken,
         EntryStart, EntryToken, PairsDone, PairSkipped, Pair, PairDies

\* ... the loop over the entries, ...
LEMMA EntryMoves ==
  ASSUME Next, pc = "entry"
  PROVE  /\ Tok(pos).type = "MAP" => Moved("pair")
         /\ Tok(pos).type = "END" => Moved("outer")
         /\ Tok(pos).type \notin {"MAP", "END"} => Moved("entry")
  BY DEF Next, Moved, Is, Go, state,
         OpenFails, Open, Finish, SkipStart, SkipKey, SkipToken, Section, NoSection, OuterToken,
         EntryStart, EntryToken, PairsDone, PairSkipped, Pair, PairDies

\* ... and that over the pairs.
LEMMA PairMoves ==
  ASSUME Next, pc = "pair"
  PROVE  /\ Tok(pos).type = "ENTRY" => Moved("entry")
         /\ Tok(pos).type = "END" => Moved("outer")
         /\ Tok(pos).type = "KEY" => PairSkipped \/ Pair \/ PairDies
  BY DEF Next, Moved, Is, Go, state,
         OpenFails, Open, Finish, SkipStart, SkipKey, SkipToken, Section, NoSection, OuterToken,
         EntryStart, EntryToken, PairsDone, PairSkipped, Pair, PairDies

(* What is done to the peers.                                               *)

\* Begun(c, e) after the step.
BegunThen(c, e) ==
    /\ peerid' = c + 1
    /\ c > 0 => peer' = Described(e, c)
    /\ \A m \in 1..c - 1 : MPL'[c - m] = Described(Symmetric(file)[m], m)

CompleteThen(c) == BegunThen(c, Symmetric(file)[c])

\* Nothing: as many are begun, and what they are.
LEMMA BegunKept ==
  ASSUME UNCHANGED <<peerid, peer, MPL>>, NEW c, NEW e
  PROVE  /\ Begun(c, e) => BegunThen(c, e)
         /\ Complete(c) => CompleteThen(c)
  BY DEF Begun, BegunThen, Complete, CompleteThen

\* To move on by one token leaves the peers as they are.
LEMMA MovedKeeps ==
  ASSUME NEW to, Moved(to), pos + 1 <= Len(toks) + 1, pos \in Nat, Len(toks) \in Nat, NEW c
  PROVE  /\ Complete(c) => CompleteThen(c)
         /\ UNCHANGED <<file, toks, sequence>> /\ pc' = to /\ pos' = pos + 1
  BY BegunKept DEF Moved, state, Scan

\* The next one is begun, and the last is complete.
LEMMA BegunNext ==
  ASSUME LoadInv, pc # "done", NEW n, StartPeer(n), NEW c \in Nat, NEW e,
         Complete(c), Described(e, c + 1) = NewPeer(n, c + 1)
  PROVE  BegunThen(c + 1, e)
<1>1. /\ peerid = c + 1 /\ (c > 0 => peer = Described(Symmetric(file)[c], c))
      /\ \A m \in 1..c - 1 : MPL[c - m] = Described(Symmetric(file)[m], m)
  BY DEF Complete, Begun
<1>2. /\ peer' = NewPeer(n, peerid) /\ peerid' = peerid + 1
      /\ MPL' = IF peer_init THEN <<peer>> \o MPL ELSE <<>>
  BY DEF StartPeer
<1>3. peerid' = (c + 1) + 1 /\ peer' = Described(e, c + 1)
  BY <1>1, <1>2
<1>4. ASSUME NEW m \in 1..c PROVE MPL'[(c + 1) - m] = Described(Symmetric(file)[m], m)
  <2>1. peer_init /\ peer \in PeerRec /\ MPL \in Seq(PeerRec) /\ Len(MPL) = c - 1
    BY <1>1 DEF LoadInv, FieldInv, ListInv
  <2>2. /\ (<<peer>> \o MPL)[1] = peer
        /\ \A i \in 2..Len(MPL) + 1 : (<<peer>> \o MPL)[i] = MPL[i - 1]
    <3> HIDE DEF PeerRec
    <3>1. QED
      BY <2>1, PushFacts
  <2>3. CASE m = c
    BY <1>1, <1>2, <2>1, <2>2, <2>3
  <2>4. CASE m # c
    <3>1. (c + 1) - m \in 2..Len(MPL) + 1 /\ ((c + 1) - m) - 1 = c - m /\ m \in 1..c - 1
      BY <2>1, <2>4
    <3>2. QED
      BY <1>1, <1>2, <2>1, <2>2, <3>1
  <2>5. QED
    BY <2>3, <2>4
<1>5. (c + 1) - 1 = c
  OBVIOUS
<1>6. QED
  BY <1>3, <1>4, <1>5 DEF BegunThen

\* A field is set in the last.
LEMMA BegunField ==
  ASSUME NEW c, NEW e, NEW d, Begun(c, e), UNCHANGED <<peerid, MPL>>, peer' = Described(d, c)
  PROVE  BegunThen(c, d)
  BY DEF Begun, BegunThen

\* At the end all are on the list.
LEMMA AllLoaded ==
  ASSUME LoadInv, Finish, Complete(Len(Symmetric(file))), Symmetric(file) \in Seq(Entry)
  PROVE  LoadsPeers'
<1> DEFINE y == Symmetric(file)
           c == Len(y)
<1>1. c \in Nat /\ DOMAIN y = 1..c
  <2> HIDE DEF Entry, y
  <2>1. QED
    BY DEF y
<1>2. /\ peerid = c + 1 /\ (c > 0 => peer = Described(y[c], c))
      /\ \A m \in 1..c - 1 : MPL[c - m] = Described(y[m], m)
  BY DEF Complete, Begun
<1>3. file' = file /\ MPL' = IF peer_init THEN <<peer>> \o MPL ELSE MPL
  BY DEF Finish
<1>4. pc = "outer" /\ peer \in PeerRec /\ MPL \in Seq(PeerRec)
  BY DEF Finish, LoadInv, FieldInv
<1> HIDE DEF y, c, PeerRec
<1>5. Len(MPL') = c /\ MPL' \in Seq(PeerRec) /\ \A n \in 1..c : MPL'[(c - n) + 1] = Described(y[n], n)
  <2>1. CASE c = 0
    <3>1. ~peer_init /\ MPL = <<>>
      BY <1>2, <2>1 DEF LoadInv, ListInv
    <3>2. QED
      BY <1>3, <1>4, <2>1, <3>1
  <2>2. CASE c # 0
    <3>1. peer_init /\ Len(MPL) = c - 1
      BY <1>1, <1>2, <1>4, <2>2 DEF LoadInv, ListInv
    <3>2. /\ MPL' \in Seq(PeerRec) /\ Len(MPL') = Len(MPL) + 1 /\ MPL'[1] = peer
          /\ \A i \in 2..Len(MPL) + 1 : MPL'[i] = MPL[i - 1]
      BY <1>3, <1>4, <3>1, PushFacts
    <3>3. ASSUME NEW n \in 1..c PROVE MPL'[(c - n) + 1] = Described(y[n], n)
      <4>1. CASE n = c
        <5>1. (c - n) + 1 = 1
          BY <1>1, <4>1
        <5>2. QED
          BY <1>1, <1>2, <2>2, <3>2, <4>1, <5>1
      <4>2. CASE n # c
        <5>1. (c - n) + 1 \in 2..Len(MPL) + 1 /\ ((c - n) + 1) - 1 = c - n /\ n \in 1..c - 1
          BY <1>1, <3>1, <4>2
        <5>2. QED
          BY <1>2, <3>2, <5>1
      <4>3. QED
        BY <4>1, <4>2
    <3>4. QED
      BY <1>1, <3>1, <3>2, <3>3
  <2>3. QED
    BY <2>1, <2>2
<1>6. Reverse(MPL') = [n \in 1..c |-> MPL'[(c - n) + 1]]
  BY <1>5 DEF Reverse
<1>7. Reverse(MPL') = [n \in 1..c |-> Described(y[n], n)]
  BY <1>5, <1>6
<1>8. QED
  BY <1>1, <1>3, <1>7 DEF LoadsPeers, y

(* Where a step leads.                                                      *)

\* To be at any of those places is to be somewhere.
LEMMA Arrive ==
  ASSUME UNCHANGED file, NEW i \in DOMAIN file.sections, NEW j \in DOMAIN file.sections[i].entries
  PROVE  /\ AtEntry(i, j)' => Somewhere'
         /\ InEntry(i, j)' => Somewhere'
         /\ file.sections[i].entries # <<>> /\ AtSectionEnd(i)' => Somewhere'
         /\ file.sections[i].entries[j] # <<>> =>
               \A k \in 1..Len(file.sections[i].entries[j]) + 1 :
                  /\ AtPair(i, j, k)' => Somewhere'
                  /\ \A c \in Places(i, j, k) : InSkip(i, j, k, c)' => Somewhere'
  BY DEF Somewhere, Places, Pairs

\* Behind an entry is the next, or the end of the section.
LEMMA NextEntry ==
  ASSUME Loading, UNCHANGED file,
         NEW i \in DOMAIN file.sections, NEW j \in DOMAIN file.sections[i].entries,
         pc' \in LoopsOf(i), pos' = EntAt(file, i, j + 1) + 1, ReadsAsPeers(i)',
         CompleteThen(Rank(file, i, j + 1))
  PROVE  Somewhere'
<1> DEFINE es == file.sections[i].entries
           n == Len(es)
<1>1. /\ es # <<>> /\ DOMAIN es = 1..n /\ n \in Nat /\ DOMAIN file.sections = 1..Len(file.sections)
      /\ Len(file.sections) \in Nat
  BY LoadingFacts, EntPartsType DEF FileOK
<1>2. CASE j < n
  <2>1. j + 1 \in DOMAIN es
    BY <1>1, <1>2
  <2>2. AtEntry(i, j + 1)'
    BY DEF AtEntry, LoopsOf, CompleteThen, BegunThen, Complete, Begun
  <2>3. QED
    BY <2>1, <2>2, Arrive
<1>3. CASE j = n
  <2>1. pos' = SecAt(file, i + 1)
    BY <1>1, <1>3, SectionToks
  <2>2. Rank(file, i, j + 1) = SecRank(file, i + 1)
    BY <1>3, LoadingFacts, RankFacts
  <2>3. NoPeersBefore(i + 1)'
    <3>1. i \in 1..(i + 1) - 1 /\ \A h \in 1..i - 1 : h \in 1..(i + 1) - 1
      BY <1>1
    <3>2. QED
      BY <3>1 DEF ReadsAsPeers, NoPeersBefore
  <2>4. pc' \in {"outer", "skip", "entry", "pair"}
    BY DEF LoopsOf
  <2>5. AtSectionEnd(i)'
    BY <2>1, <2>2, <2>3, <2>4 DEF AtSectionEnd, CompleteThen, BegunThen, Complete, Begun
  <2>6. QED
    BY <1>1, <2>5, Arrive
<1>4. QED
  BY <1>1, <1>2, <1>3

\* Within the tokens, n scans go n on.
LEMMA ScanFits ==
  ASSUME NEW n, pos + n <= Len(toks) + 1, pos \in Nat, n \in Nat, Len(toks) \in Nat
  PROVE  Scan(n) = pos + n
  BY DEF Scan

\* At the ENTRY of an entry.
LEMMA AtEntryStep ==
  ASSUME Loading, Next, NEW i \in DOMAIN file.sections, NEW j \in DOMAIN file.sections[i].entries,
         AtEntry(i, j)
  PROVE  Somewhere' /\ UNCHANGED <<file, toks>>
<1>1. /\ pos = EntAt(file, i, j) + 1 /\ pos \in Nat /\ pos + 1 <= Len(toks) + 1 /\ Len(toks) \in Nat
      /\ Tok(pos).type = "ENTRY"
  BY EntryToks, LoadingFacts DEF AtEntry
<1>2. /\ pc \in LoopsOf(i) /\ ReadsAsPeers(i) /\ Complete(Rank(file, i, j))
      /\ pc \in {"outer", "skip", "entry", "pair"}
  BY DEF AtEntry, LoopsOf
<1>3. /\ pc = "outer" => Moved("outer")
      /\ pc = "skip" => Moved("skip")
      /\ pc \in {"entry", "pair"} => Moved("entry")
  BY <1>1, OuterMoves, SkipMoves, EntryMoves, PairMoves
<1>4. PICK to \in {"outer", "skip", "entry"} :
         Moved(to) /\ (to = pc \/ (to = "entry" /\ pc = "pair"))
  BY <1>1, <1>2, OuterMoves, SkipMoves, EntryMoves, PairMoves
<1>5. /\ CompleteThen(Rank(file, i, j)) /\ UNCHANGED <<file, toks, sequence>>
      /\ pc' = to /\ pos' = EntAt(file, i, j) + 2
  <2>1. CompleteThen(Rank(file, i, j)) /\ UNCHANGED <<file, toks, sequence>> /\ pc' = to /\ pos' = pos + 1
    BY <1>1, <1>2, <1>4, MovedKeeps
  <2>2. EntAt(file, i, j) \in Nat
    BY EntryToks
  <2>3. QED
    BY <1>1, <2>1, <2>2
<1>6. ReadsAsPeers(i)'
  BY <1>2, <1>4, <1>5 DEF ReadsAsPeers, NoPeersBefore
<1>7. pc' \in LoopsOf(i) \ {"pair"}
  BY <1>2, <1>4, <1>5 DEF LoopsOf
<1>8. InEntry(i, j)'
  BY <1>5, <1>6, <1>7 DEF InEntry, LoopsOf, CompleteThen, BegunThen, Complete, Begun
<1>9. QED
  BY <1>5, <1>8, Arrive

\* The places within a pair are its three or four tokens.
LEMMA PlacesFacts ==
  ASSUME Loading, NEW i \in DOMAIN file.sections, NEW j \in DOMAIN file.sections[i].entries, NEW k
  PROVE  LET e == file.sections[i].entries[j]
         IN  /\ 1 \in Places(i, j, k)
             /\ k \in DOMAIN e => Places(i, j, k) = 1..IF e[k][2] = "empty" THEN 3 ELSE 4
             /\ k \notin DOMAIN e => Places(i, j, k) = {1}
<1> DEFINE e == file.sections[i].entries[j]
<1>1. CASE k \in DOMAIN e
  <2>1. Len(PairTokens(e[k])) = IF e[k][2] = "empty" THEN 3 ELSE 4
    BY <1>1, PairToks DEF PairRead
  <2>2. Places(i, j, k) = 1..Len(PairTokens(e[k]))
    BY <1>1 DEF Places, Pairs
  <2>3. QED
    BY <1>1, <2>1, <2>2
<1>2. CASE k \notin DOMAIN e
  BY <1>2 DEF Places, Pairs
<1>3. QED
  BY <1>1, <1>2

\* At what is behind it: MAP, or the scalar that stands for an entry of no pairs.
LEMMA InEntryStep ==
  ASSUME Loading, Next, NEW i \in DOMAIN file.sections, NEW j \in DOMAIN file.sections[i].entries,
         InEntry(i, j)
  PROVE  Somewhere' /\ UNCHANGED <<file, toks>>
<1> DEFINE e == file.sections[i].entries[j]
           p == EntAt(file, i, j)
<1>1. /\ pos = p + 2 /\ p \in Nat /\ pos \in Nat /\ pos + 1 <= Len(toks) + 1 /\ Len(toks) \in Nat
  BY EntryToks, LoadingFacts DEF InEntry
<1>2. /\ pc \in LoopsOf(i) /\ ReadsAsPeers(i) /\ Complete(Rank(file, i, j))
      /\ pc \in {"outer", "skip", "entry"}
  BY DEF InEntry, LoopsOf
<1>3. CASE e = <<>>
  <2>1. Tok(pos).type = "SCALAR" /\ EntAt(file, i, j + 1) = p + 2
    BY <1>1, <1>3, EntryToks
  <2>2. Moved(pc)
    BY <1>2, <2>1, OuterMoves, SkipMoves, EntryMoves
  <2>3. CompleteThen(Rank(file, i, j)) /\ UNCHANGED <<file, toks, sequence>> /\ pc' = pc /\ pos' = pos + 1
    BY <1>1, <1>2, <2>2, MovedKeeps DEF Moved
  <2>4. Rank(file, i, j + 1) = Rank(file, i, j)
    BY <1>3, LoadingFacts, RankFacts
  <2>5. ReadsAsPeers(i)'
    BY <1>2, <2>3 DEF ReadsAsPeers, NoPeersBefore
  <2>6. pos' = EntAt(file, i, j + 1) + 1
    BY <1>1, <2>1, <2>3
  <2>7. QED
    BY <1>2, <2>3, <2>4, <2>5, <2>6, NextEntry
<1>4. CASE e # <<>>
  <2>1. Tok(pos).type = "MAP" /\ PairAt(file, i, j, 1) = p + 2
    BY <1>1, <1>4, EntryToks
  <2>2. PICK to \in {"skip", "pair"} : Moved(to) /\ (to = "pair" <=> pc = "entry")
    BY <1>2, <2>1, OuterMoves, SkipMoves, EntryMoves
  <2>3. CompleteThen(Rank(file, i, j)) /\ UNCHANGED <<file, toks, sequence>> /\ pc' = to /\ pos' = pos + 1
    BY <1>1, <1>2, <2>2, MovedKeeps
  <2>4. pos' = PairAt(file, i, j, 1) + 1
    BY <1>1, <2>1, <2>3
  <2>5. EntryOK(e) /\ DOMAIN e = 1..Len(e) /\ Len(e) \in Nat
    <3>1. EntryOK(e)
      BY LoadingFacts DEF FileOK, SectionOK
    <3>2. QED
      BY <3>1, PairPartsType
  <2>6. Len(e) >= 1
    BY <1>4, <2>5 DEF EntryOK
  <2>7. 1 \in 1..Len(e) + 1 /\ 1 \in DOMAIN e
    BY <2>5, <2>6
  <2>8. CASE to = "pair"
    <3>1. ReadsAsPeers(i)'
      BY <1>2, <2>2, <2>3, <2>8 DEF ReadsAsPeers
    <3>2. AtPair(i, j, 1)'
      BY <2>3, <2>4, <2>6, <2>8, <3>1 DEF AtPair, CompleteThen, BegunThen, Complete, Begun
    <3>3. QED
      BY <1>4, <2>3, <2>7, <3>2, Arrive
  <2>9. CASE to = "skip"
    <3>1. ~IsPeers(file.sections[i])
      BY <1>2, <2>2, <2>9 DEF LoopsOf
    <3>2. NoPeersBefore(i)
      BY <1>2, <2>2, <2>9, <3>1 DEF ReadsAsPeers
    <3>3. InSkip(i, j, 1, 1)'
      BY <2>3, <2>4, <2>9, <3>1, <3>2 DEF InSkip, NoPeersBefore, CompleteThen, BegunThen, Complete, Begun
    <3>4. 1 \in Places(i, j, 1)
      BY PlacesFacts
    <3>5. QED
      BY <1>4, <2>3, <2>7, <3>3, <3>4, Arrive
  <2>10. QED
    BY <2>8, <2>9
<1>5. QED
  BY <1>3, <1>4

\* In an entry that is skipped.
LEMMA InSkipStep ==
  ASSUME Loading, Next, NEW i \in DOMAIN file.sections, NEW j \in DOMAIN file.sections[i].entries,
         file.sections[i].entries[j] # <<>>, NEW k \in 1..Len(file.sections[i].entries[j]) + 1,
         NEW c \in Places(i, j, k), InSkip(i, j, k, c)
  PROVE  Somewhere' /\ UNCHANGED <<file, toks>>
<1> DEFINE e == file.sections[i].entries[j]
           P(l) == PairAt(file, i, j, l)
           n == Len(e)
<1>1. /\ pc = "skip" /\ pos = P(k) + c /\ ~IsPeers(file.sections[i]) /\ NoPeersBefore(i)
      /\ Complete(Rank(file, i, j))
  BY DEF InSkip
<1>2. DOMAIN e = 1..n /\ n \in Nat /\ Len(toks) \in Nat
  <2>1. EntryOK(e)
    BY LoadingFacts DEF FileOK, SectionOK
  <2>2. QED
    BY <2>1, PairPartsType, LoadingFacts
<1>3. /\ EntAt(file, i, j + 1) = P(n + 1) + 1 /\ Tok(P(n + 1) + 1).type = "END"
      /\ P(n + 1) \in Nat /\ P(n + 1) + 1 <= Len(toks)
  BY EntryToks
<1>4. Rank(file, i, j + 1) = Rank(file, i, j)
  BY <1>1, LoadingFacts, RankFacts
\* Arrived in the loop again, ...
<1>5. ASSUME UNCHANGED <<file, toks, sequence>>, CompleteThen(Rank(file, i, j)), pc' = "skip",
             NEW l \in 1..n + 1, NEW d \in Places(i, j, l), pos' = P(l) + d
      PROVE  Somewhere'
  <2>1. InSkip(i, j, l, d)'
    BY <1>1, <1>5 DEF InSkip, NoPeersBefore, CompleteThen, BegunThen, Complete, Begun
  <2>2. QED
    BY <1>5, <2>1, Arrive
\* ... or out of it.
<1>6. ASSUME UNCHANGED <<file, toks, sequence>>, CompleteThen(Rank(file, i, j)), pc' = "outer",
             pos' = P(n + 1) + 2
      PROVE  Somewhere'
  <2>1. pc' \in LoopsOf(i)
    BY <1>1, <1>6 DEF LoopsOf
  <2>2. ReadsAsPeers(i)'
    BY <1>1, <1>6 DEF ReadsAsPeers, NoPeersBefore
  <2>3. pos' = EntAt(file, i, j + 1) + 1
    BY <1>3, <1>6
  <2>4. QED
    BY <1>4, <1>6, <2>1, <2>2, <2>3, NextEntry
<1>7. ASSUME k = n + 1 PROVE Somewhere' /\ UNCHANGED <<file, toks>>
  <2>1. c = 1
    BY <1>2, <1>7, PlacesFacts
  <2>2. pos = P(n + 1) + 1
    BY <1>1, <1>7, <2>1
  <2>3. Moved("outer")
    BY <1>1, <1>3, <2>2, SkipMoves
  <2>4. /\ CompleteThen(Rank(file, i, j)) /\ UNCHANGED <<file, toks, sequence>>
        /\ pc' = "outer" /\ pos' = pos + 1
    BY <1>1, <1>2, <1>3, <2>2, <2>3, MovedKeeps
  <2>5. pos' = P(n + 1) + 2
    BY <1>3, <2>2, <2>4
  <2>6. QED
    BY <1>6, <2>4, <2>5
<1>8. ASSUME k \in 1..n PROVE Somewhere' /\ UNCHANGED <<file, toks>>
  <2> DEFINE w == IF e[k][2] = "empty" THEN 3 ELSE 4
             u == Len(PairTokens(e[k]))
  <2>0. k \in DOMAIN e
    BY <1>2, <1>8
  <2>1. /\ P(k) \in Nat /\ P(k + 1) = P(k) + w /\ P(k + 1) + 1 <= Len(toks)
        /\ Tok(P(k) + 1).type = "KEY" /\ Tok(P(k) + 2) = Scalar(e[k][1]) /\ Tok(P(k) + 3).type = "VALUE"
        /\ e[k][2] # "empty" => Tok(P(k) + 4) = Scalar(e[k][2])
        /\ Tok(P(k + 1) + 1).type = IF k = n THEN "END" ELSE "KEY"
    <3>0. PairRead(i, j, k)
      BY <2>0, PairToks
    <3>1. u = w
      BY <3>0 DEF PairRead
    <3>2. /\ P(k) \in Nat /\ P(k + 1) = P(k) + u /\ P(k + 1) + 1 <= Len(toks)
          /\ Tok(P(k) + 1).type = "KEY" /\ Tok(P(k) + 2) = Scalar(e[k][1]) /\ Tok(P(k) + 3).type = "VALUE"
          /\ e[k][2] # "empty" => Tok(P(k) + 4) = Scalar(e[k][2])
          /\ Tok(P(k + 1) + 1).type = IF k = n THEN "END" ELSE "KEY"
      <4> HIDE DEF w
      <4>1. QED
        BY <3>0 DEF PairRead
    <3> HIDE DEF w, u
    <3>3. QED
      BY <3>1, <3>2
  <2>2. c \in 1..w /\ k + 1 \in 1..n + 1 /\ w \in {3, 4} /\ 1..w = Places(i, j, k)
    <3>1. 1..w = Places(i, j, k)
      BY <2>0, PlacesFacts
    <3>2. w \in {3, 4} /\ k + 1 \in 1..n + 1
      BY <1>2, <1>8
    <3> HIDE DEF w
    <3>3. QED
      BY <3>1, <3>2
  <2>3. 1 \in Places(i, j, k + 1) /\ (k # n => 2 \in Places(i, j, k + 1))
    <3>1. k # n => k + 1 \in DOMAIN e
      BY <1>2, <1>8
    <3>2. QED
      BY <3>1, PlacesFacts
  <2>4. e[k][2] # "empty" => Tok(P(k) + 4).type = "SCALAR"
    BY <2>1, MarkTypes
  <2>5. Tok(P(k) + 2).type = "SCALAR"
    BY <2>1, MarkTypes
  <2> HIDE DEF w, P, e, n
  <2>6. CASE c # 1
    <3>1. Tok(pos).type \in {"SCALAR", "VALUE"} /\ pos \in Nat /\ pos + 1 <= Len(toks) + 1
      <4>1. c = 2 \/ c = 3 \/ (c = 4 /\ w = 4)
        BY <2>2, <2>6
      <4>2. w = 4 => e[k][2] # "empty"
        BY DEF w
      <4>3. QED
        <5>1. CASE c = 2
          BY <1>1, <1>2, <2>1, <2>2, <2>5, <5>1
        <5>2. CASE c = 3
          BY <1>1, <1>2, <2>1, <2>2, <5>2
        <5>3. CASE c = 4 /\ w = 4
          BY <1>1, <1>2, <2>1, <2>4, <4>2, <5>3
        <5>4. QED
          BY <4>1, <5>1, <5>2, <5>3
    <3>2. Moved("skip")
      BY <1>1, <3>1, SkipMoves
    <3>3. /\ CompleteThen(Rank(file, i, j)) /\ UNCHANGED <<file, toks, sequence>>
          /\ pc' = "skip" /\ pos' = pos + 1
      BY <1>1, <1>2, <3>1, <3>2, MovedKeeps
    <3>4. CASE c < w
      <4>1. c + 1 \in 1..w /\ c \in Nat
        BY <2>2, <3>4
      <4>2. pos' = P(k) + (c + 1)
        BY <1>1, <2>1, <3>3, <4>1
      <4>3. c + 1 \in Places(i, j, k) /\ k \in 1..n + 1
        BY <1>2, <1>8, <2>2, <4>1
      <4>4. QED
        BY <1>5, <3>3, <4>2, <4>3
    <3>5. CASE c = w
      <4>1. pos' = P(k + 1) + 1
        BY <1>1, <2>1, <2>2, <3>3, <3>5
      <4>2. QED
        BY <1>5, <2>2, <2>3, <3>3, <4>1
    <3>6. QED
      BY <2>2, <3>4, <3>5
  <2>7. CASE c = 1
    <3>1. /\ pos = P(k) + 1 /\ pos \in Nat /\ Tok(pos).type = "KEY" /\ Tok(pos + 2).type = "VALUE"
      <4>1. pos = P(k) + 1 /\ pos + 2 = P(k) + 3
        BY <1>1, <2>1, <2>7
      <4>2. QED
        BY <2>1, <4>1
    <3>2. SkipKey
      BY <1>1, <3>1 DEF Next, Is, Go,
         OpenFails, Open, Finish, SkipStart, SkipKey, SkipToken, Section, NoSection, OuterToken,
         EntryStart, EntryToken, PairsDone, PairSkipped, Pair, PairDies
    <3>3. IF Tok(pos + 3).type = "END" THEN Go("skip", "outer", 4) ELSE Go("skip", "skip", 4)
      BY <3>1, <3>2 DEF SkipKey, Is
    <3>4. UNCHANGED <<file, toks, sequence, peerid, peer, MPL>>
      BY <3>2, <3>3 DEF SkipKey, Go
    <3>5. CompleteThen(Rank(file, i, j)) /\ UNCHANGED <<file, toks, sequence>>
      BY <1>1, <3>4, BegunKept
    <3>6. pos + 4 <= Len(toks) + 1 /\ pos' = pos + 4
      <4>1. pos + 4 <= Len(toks) + 1
        <5>1. P(k) + 3 <= P(k + 1) /\ P(k + 1) + 1 <= Len(toks) /\ P(k + 1) \in Nat
          BY <2>1, <2>2
        <5>2. QED
          BY <1>2, <2>1, <3>1, <5>1
      <4>2. Scan(4) = pos + 4
        BY <1>2, <3>1, <4>1, ScanFits
      <4>3. QED
        BY <3>3, <4>1, <4>2 DEF Go
    <3>7. CASE w = 4
      <4>1. pos + 3 = P(k) + 4 /\ e[k][2] # "empty"
        BY <2>1, <3>1, <3>7 DEF w
      <4>2. pc' = "skip"
        BY <2>4, <3>3, <4>1 DEF Go
      <4>3. pos' = P(k + 1) + 1
        BY <2>1, <3>1, <3>6, <3>7
      <4>4. QED
        BY <1>5, <2>2, <2>3, <3>5, <4>2, <4>3
    <3>8. CASE w = 3
      <4>1. pos + 3 = P(k + 1) + 1 /\ pos' = P(k + 1) + 2
        BY <2>1, <3>1, <3>6, <3>8
      <4>2. CASE k = n
        <5>1. pc' = "outer"
          BY <2>1, <3>3, <4>1, <4>2 DEF Go
        <5>2. QED
          BY <1>6, <3>5, <4>1, <4>2, <5>1
      <4>3. CASE k # n
        <5>1. pc' = "skip"
          BY <2>1, <3>3, <4>1, <4>3 DEF Go
        <5>2. QED
          BY <1>5, <2>2, <2>3, <3>5, <4>1, <4>3, <5>1
      <4>4. QED
        BY <4>2, <4>3
    <3>9. QED
      BY <2>2, <3>7, <3>8
  <2>8. QED
    BY <2>6, <2>7
<1>9. k \in 1..n \/ k = n + 1
  BY <1>2
<1>10. QED
  BY <1>7, <1>8, <1>9

\* What is known of a peer.
LEMMA PeerFacts ==
  ASSUME Loading, NEW i \in DOMAIN file.sections, NEW j \in DOMAIN file.sections[i].entries,
         file.sections[i].entries[j] # <<>>
  PROVE  LET e == file.sections[i].entries[j]
         IN  /\ EntryOK(e) /\ e \in Seq(Pairing) /\ DOMAIN e = 1..Len(e) /\ Len(e) \in Nat /\ Len(e) >= 1
             /\ IsPeers(file.sections[i]) => RegularPeer(e)
<1> DEFINE e == file.sections[i].entries[j]
<1>1. EntryOK(e)
  BY LoadingFacts DEF FileOK, SectionOK
<1>2. DOMAIN e = 1..Len(e) /\ Len(e) \in Nat
  BY <1>1, PairPartsType
<1>3. e \in Seq(Pairing)
  BY <1>1 DEF EntryOK
<1>4. Len(e) >= 1
  <2> HIDE DEF e, Pairing
  <2>1. e # <<>>
    BY DEF e
  <2>2. QED
    BY <1>2, <1>3, <2>1
<1>5. IsPeers(file.sections[i]) => RegularPeer(e)
  BY DEF Loading, Regular, IsPeers
<1>6. QED
  BY <1>1, <1>2, <1>3, <1>4, <1>5

\* The pairs so far are those of a peer, or of something else.
PairsRead(i, j, k) ==
    LET e == file.sections[i].entries[j]
    IN  IF IsPeers(file.sections[i])
          THEN /\ BegunThen(Rank(file, i, j) + 1, SubSeq(e, 1, k))
               /\ name' = e[1][2] /\ last_name' = name'
          ELSE CompleteThen(Rank(file, i, j))

\* A pair without a value changes nothing; it is not the last of a peer.
LEMMA EmptyPair ==
  ASSUME Loading, NEW i \in DOMAIN file.sections, NEW j \in DOMAIN file.sections[i].entries,
         NEW k \in DOMAIN file.sections[i].entries[j], file.sections[i].entries[j] # <<>>,
         AtPair(i, j, k), Next, file.sections[i].entries[j][k][2] = "empty"
  PROVE  /\ UNCHANGED <<file, toks, sequence>> /\ pc' = "pair" /\ pos' = PairAt(file, i, j, k + 1) + 1
         /\ PairsRead(i, j, k)
         /\ IsPeers(file.sections[i]) => k < Len(file.sections[i].entries[j])
<1> DEFINE e == file.sections[i].entries[j]
           p == PairAt(file, i, j, k)
<1>1. pc = "pair" /\ pos = p + 1
  BY DEF AtPair
<1>2. PairRead(i, j, k)
  BY PairToks
<1>3. /\ Len(PairTokens(e[k])) = 3 /\ p \in Nat /\ PairAt(file, i, j, k + 1) = p + 3
      /\ p + 4 <= Len(toks) /\ Len(toks) \in Nat
      /\ Tok(p + 1).type = "KEY" /\ Tok(p + 2).type = "SCALAR" /\ Tok(p + 3).type = "VALUE"
      /\ Tok(p + 4).type \in {"END", "KEY"}
  <2>1. /\ Len(PairTokens(e[k])) = 3 /\ p \in Nat /\ PairAt(file, i, j, k + 1) = p + Len(PairTokens(e[k]))
        /\ PairAt(file, i, j, k + 1) + 1 <= Len(toks)
        /\ Tok(p + 1).type = "KEY" /\ Tok(p + 2) = Scalar(e[k][1]) /\ Tok(p + 3).type = "VALUE"
        /\ Tok(PairAt(file, i, j, k + 1) + 1).type \in {"END", "KEY"}
    BY <1>2 DEF PairRead
  <2>2. (p + 3) + 1 = p + 4
    BY <2>1
  <2>3. QED
    BY <2>1, <2>2, LoadingFacts, MarkTypes
<1> HIDE DEF p, e
<1>4. pos + 1 = p + 2 /\ pos + 2 = p + 3 /\ pos + 3 = p + 4
  BY <1>1, <1>3
<1>5. PairSkipped
  <2>1. PairSkipped \/ Pair \/ PairDies
    BY <1>1, <1>3, PairMoves
  <2>2. ~Is(pos + 3, {"SCALAR"})
    BY <1>3, <1>4 DEF Is
  <2>3. QED
    BY <2>1, <2>2 DEF Pair, PairDies
<1>6. /\ Go("pair", "pair", 3) /\ UNCHANGED <<name, last_name, sequence, peer_init, peerid, peer, MPL>>
  <2>1. Is(pos + 1, {"SCALAR"}) /\ Is(pos + 2, {"VALUE"})
    BY <1>3, <1>4 DEF Is
  <2>2. QED
    BY <1>5, <2>1 DEF PairSkipped
<1>7. UNCHANGED <<file, toks>> /\ pc' = "pair" /\ pos' = p + 4
  <2>1. Scan(3) = pos + 3
    BY <1>1, <1>3, ScanFits
  <2>2. QED
    BY <1>4, <1>6, <2>1 DEF Go
<1>8. CASE IsPeers(file.sections[i])
  <2>1. RegularPeer(e) /\ e \in Seq(Pairing) /\ DOMAIN e = 1..Len(e) /\ Len(e) \in Nat
    BY <1>8, PeerFacts DEF e
  <2>2. k \in 2..Len(e) /\ k # Len(e)
    BY <2>1 DEF RegularPeer, e
  <2>3. k > 1
    BY <2>2
  <2>4. Begun(Rank(file, i, j) + 1, SubSeq(e, 1, k - 1)) /\ name = e[1][2] /\ last_name = name
    BY <1>8, <2>3 DEF AtPair, e
  <2>5. \A n : Described(SubSeq(e, 1, k), n) = Described(SubSeq(e, 1, k - 1), n)
    BY <2>1, <2>2, NextField DEF e
  <2>6. BegunThen(Rank(file, i, j) + 1, SubSeq(e, 1, k))
    BY <1>6, <2>4, <2>5 DEF Begun, BegunThen
  <2>7. QED
    BY <1>3, <1>6, <1>7, <1>8, <2>1, <2>2, <2>4, <2>6 DEF PairsRead, e, p
<1>9. CASE ~IsPeers(file.sections[i])
  <2>1. Complete(Rank(file, i, j))
    BY <1>9 DEF AtPair
  <2>2. CompleteThen(Rank(file, i, j))
    BY <1>6, <2>1, BegunKept
  <2>3. QED
    BY <1>3, <1>6, <1>7, <1>9, <2>2 DEF PairsRead, p
<1>10. QED
  BY <1>8, <1>9

\* A pair with a value begins a peer or fills a field of it.
LEMMA FullPair ==
  ASSUME Loading, NEW i \in DOMAIN file.sections, NEW j \in DOMAIN file.sections[i].entries,
         NEW k \in DOMAIN file.sections[i].entries[j], file.sections[i].entries[j] # <<>>,
         AtPair(i, j, k), Next, file.sections[i].entries[j][k][2] # "empty", pc' # "exited"
  PROVE  /\ UNCHANGED <<file, toks, sequence>> /\ pc' = "pair"
         /\ pos' = PairAt(file, i, j, k + 1) + IF k = Len(file.sections[i].entries[j]) THEN 2 ELSE 1
         /\ PairsRead(i, j, k)
<1> DEFINE e == file.sections[i].entries[j]
           p == PairAt(file, i, j, k)
           c == Rank(file, i, j)
<1>1. pc = "pair" /\ pos = p + 1 /\ ReadsAsPeers(i)
  BY DEF AtPair
<1>2. PairRead(i, j, k)
  BY PairToks
<1>3. /\ p \in Nat /\ PairAt(file, i, j, k + 1) = p + 4
      /\ p + 5 <= Len(toks) /\ Len(toks) \in Nat
      /\ Tok(p + 1).type = "KEY" /\ Tok(p + 2) = Scalar(e[k][1]) /\ Tok(p + 3).type = "VALUE"
      /\ Tok(p + 4) = Scalar(e[k][2])
      /\ Tok(p + 5).type = IF k = Len(e) THEN "END" ELSE "KEY"
  <2>1. /\ Len(PairTokens(e[k])) = 4 /\ p \in Nat /\ PairAt(file, i, j, k + 1) = p + Len(PairTokens(e[k]))
        /\ PairAt(file, i, j, k + 1) + 1 <= Len(toks)
        /\ Tok(p + 1).type = "KEY" /\ Tok(p + 2) = Scalar(e[k][1]) /\ Tok(p + 3).type = "VALUE"
        /\ Tok(p + 4) = Scalar(e[k][2])
        /\ Tok(PairAt(file, i, j, k + 1) + 1).type = IF k = Len(e) THEN "END" ELSE "KEY"
    BY <1>2 DEF PairRead
  <2>2. (p + 4) + 1 = p + 5
    BY <2>1
  <2>3. QED
    BY <2>1, <2>2, LoadingFacts
<1> HIDE DEF p, e, c
<1>4. pos + 1 = p + 2 /\ pos + 2 = p + 3 /\ pos + 3 = p + 4 /\ pos + 4 = p + 5
  BY <1>1, <1>3
<1>5. /\ Is(pos + 1, {"SCALAR"}) /\ Is(pos + 2, {"VALUE"}) /\ Is(pos + 3, {"SCALAR"})
      /\ Tok(pos + 1).value = e[k][1] /\ Tok(pos + 3).value = e[k][2]
  BY <1>3, <1>4, MarkTypes DEF Is
<1>6. Pair
  <2>1. PairSkipped \/ Pair \/ PairDies
    BY <1>1, <1>3, PairMoves
  <2>2. ~PairSkipped
    BY <1>5 DEF PairSkipped
  <2>3. ~PairDies
    BY DEF PairDies
  <2>4. QED
    BY <2>1, <2>2, <2>3
<1>7. /\ key' = e[k][1] /\ name' = (IF key' = "name" THEN e[k][2] ELSE name)
      /\ UNCHANGED sequence
      /\ Go("pair", "pair", IF Is(pos + 4, {"END"}) THEN 5 ELSE 4)
      /\ \/ sequence # SEQ_SPEER /\ UNCHANGED <<last_name, peer_init, peerid, peer, MPL>>
         \/ /\ sequence = SEQ_SPEER /\ peer_init /\ key' # "name" /\ last_name = name'
            /\ peer' = SetField(peer, key', e[k][2])
            /\ UNCHANGED <<last_name, peer_init, peerid, MPL>>
         \/ /\ sequence = SEQ_SPEER /\ ~(peer_init /\ key' # "name" /\ last_name = name')
            /\ StartPeer(name')
  BY <1>5, <1>6 DEF Pair
<1>8. /\ UNCHANGED <<file, toks>> /\ pc' = "pair"
      /\ pos' = (p + 4) + IF k = Len(e) THEN 2 ELSE 1
  <2>1. Scan(4) = pos + 4 /\ Scan(5) = pos + 5
    <3>1. pos \in Nat /\ pos + 4 <= Len(toks) + 1 /\ pos + 5 <= Len(toks) + 1
      BY <1>1, <1>3
    <3>2. QED
      BY <1>3, <3>1, ScanFits
  <2>2. Is(pos + 4, {"END"}) <=> k = Len(e)
    BY <1>3, <1>4 DEF Is
  <2>3. QED
    BY <1>1, <1>3, <1>7, <2>1, <2>2 DEF Go
<1>9. PairsRead(i, j, k)
  <2>1. CASE ~IsPeers(file.sections[i])
    <3>1. sequence # SEQ_SPEER
      BY <1>1, <2>1 DEF ReadsAsPeers
    <3>2. Complete(c)
      BY <2>1 DEF AtPair, c
    <3>3. CompleteThen(c)
      BY <1>7, <3>1, <3>2, BegunKept
    <3>4. QED
      BY <2>1, <3>3 DEF PairsRead, c
  <2>2. CASE IsPeers(file.sections[i])
    <3>1. sequence = SEQ_SPEER
      BY <1>1, <2>2 DEF ReadsAsPeers
    <3>2. RegularPeer(e) /\ e \in Seq(Pairing) /\ DOMAIN e = 1..Len(e) /\ Len(e) \in Nat /\ e # <<>>
      BY <2>2, PeerFacts DEF e
    <3>3. c \in Nat /\ LoadInv
      BY LoadingFacts, RankFacts DEF c, Loading
    <3>4. CASE k = 1
      <4>1. e[1][1] = "name"
        BY <3>2 DEF RegularPeer
      <4>2. StartPeer(name') /\ name' = e[1][2]
        BY <1>7, <3>1, <3>4, <4>1
      <4>3. last_name' = name'
        BY <4>2 DEF StartPeer
      <4>4. Complete(c)
        BY <3>4 DEF AtPair, c
      <4>5. Described(SubSeq(e, 1, 1), c + 1) = NewPeer(e[1][2], c + 1)
        BY <3>2, FirstField
      <4>6. StartPeer(e[1][2]) /\ pc # "done"
        BY <1>1, <4>2
      <4>7. BegunThen(c + 1, SubSeq(e, 1, 1))
        BY <3>3, <4>4, <4>5, <4>6, BegunNext
      <4>8. QED
        BY <2>2, <3>4, <4>2, <4>3, <4>7 DEF PairsRead, c, e
    <3>5. CASE k # 1
      <4>1. k \in 2..Len(e) /\ k > 1
        BY <3>2, <3>5 DEF e
      <4>2. Begun(c + 1, SubSeq(e, 1, k - 1)) /\ name = e[1][2] /\ last_name = name
        BY <2>2, <4>1 DEF AtPair, c, e
      <4>3. /\ e[k][1] # "name"
            /\ Described(SubSeq(e, 1, k), c + 1)
                  = SetField(Described(SubSeq(e, 1, k - 1), c + 1), e[k][1], e[k][2])
        BY <3>2, <4>1, NextField DEF e
      <4>4. peerid = (c + 1) + 1 /\ peer = Described(SubSeq(e, 1, k - 1), c + 1)
        <5>1. c + 1 > 0
          BY <3>3
        <5>2. QED
          BY <4>2, <5>1 DEF Begun
      <4>5. peer_init
        BY <3>3, <4>4 DEF LoadInv, ListInv, FieldInv
      <4>6. /\ peer' = Described(SubSeq(e, 1, k), c + 1) /\ name' = name
            /\ UNCHANGED <<last_name, peerid, MPL>>
        BY <1>7, <3>1, <4>2, <4>3, <4>4, <4>5
      <4>7. BegunThen(c + 1, SubSeq(e, 1, k))
        BY <4>2, <4>6, BegunField
      <4>8. QED
        BY <2>2, <4>2, <4>6, <4>7 DEF PairsRead, c, e
    <3>6. QED
      BY <3>4, <3>5
  <2>3. QED
    BY <2>1, <2>2
<1>10. QED
  BY <1>3, <1>7, <1>8, <1>9 DEF e

\* At a pair of an entry, or at its END.
LEMMA AtPairStep ==
  ASSUME Loading, Next, NEW i \in DOMAIN file.sections, NEW j \in DOMAIN file.sections[i].entries,
         file.sections[i].entries[j] # <<>>, NEW k \in 1..Len(file.sections[i].entries[j]) + 1,
         AtPair(i, j, k), pc' # "exited"
  PROVE  Somewhere' /\ UNCHANGED <<file, toks>>
<1> DEFINE e == file.sections[i].entries[j]
           n == Len(e)
           r == Rank(file, i, j)
<1>1. /\ pc = "pair" /\ pos = PairAt(file, i, j, k) + 1 /\ ReadsAsPeers(i)
      /\ IsPeers(file.sections[i]) => k <= n
  BY DEF AtPair
<1>2. /\ DOMAIN e = 1..n /\ n \in Nat /\ Len(toks) \in Nat /\ e \in Seq(Pairing)
      /\ "pair" \in LoopsOf(i)
      /\ "outer" \in LoopsOf(i) \/ IsPeers(file.sections[i])
  BY PeerFacts, LoadingFacts DEF LoopsOf
<1>3. /\ PairAt(file, i, j, n + 1) \in Nat
      /\ EntAt(file, i, j + 1) = PairAt(file, i, j, n + 1) + 1 /\ EntAt(file, i, j + 1) <= Len(toks)
      /\ Tok(EntAt(file, i, j + 1)).type = "END"
  BY EntryToks
<1>4. /\ r \in Nat
      /\ ~IsPeers(file.sections[i]) => Rank(file, i, j + 1) = r
      /\ IsPeers(file.sections[i]) => Rank(file, i, j + 1) = r + 1 /\ Symmetric(file)[r + 1] = e
  BY LoadingFacts, RankFacts
<1>5. SubSeq(e, 1, n) = e
  BY <1>2, WholeEntry
<1> HIDE DEF e, n, r
<1>6. CASE k = n + 1
  <2>1. ~IsPeers(file.sections[i])
    BY <1>1, <1>2, <1>6
  <2>2. Moved("outer") /\ pos \in Nat /\ pos = EntAt(file, i, j + 1)
    BY <1>1, <1>3, <1>6, PairMoves
  <2>3. Complete(r)
    BY <2>1 DEF AtPair, r
  <2>4. CompleteThen(r) /\ UNCHANGED <<file, toks, sequence>> /\ pc' = "outer" /\ pos' = pos + 1
    BY <1>2, <1>3, <2>2, <2>3, MovedKeeps
  <2>5. ReadsAsPeers(i)' /\ pc' \in LoopsOf(i)
    BY <1>1, <1>2, <2>1, <2>4 DEF ReadsAsPeers, NoPeersBefore
  <2>6. pos' = EntAt(file, i, j + 1) + 1 /\ CompleteThen(Rank(file, i, j + 1))
    BY <1>4, <2>1, <2>2, <2>4
  <2>7. QED
    BY <2>4, <2>5, <2>6, NextEntry
<1>7. ASSUME k \in 1..n - 1, UNCHANGED <<file, toks, sequence>>, pc' = "pair",
             pos' = PairAt(file, i, j, k + 1) + 1, PairsRead(i, j, k)
      PROVE  Somewhere'
  <2>1. k + 1 \in 1..n + 1 /\ k + 1 > 1 /\ k + 1 <= n /\ (k + 1) - 1 = k
    BY <1>2, <1>7
  <2>2. ReadsAsPeers(i)'
    BY <1>1, <1>7 DEF ReadsAsPeers
  <2>3. AtPair(i, j, k + 1)'
    <3>1. CASE IsPeers(file.sections[i])
      BY <1>7, <2>1, <2>2, <3>1 DEF AtPair, PairsRead, BegunThen, Begun, e, n
    <3>2. CASE ~IsPeers(file.sections[i])
      BY <1>7, <2>1, <2>2, <3>2 DEF AtPair, PairsRead, CompleteThen, BegunThen, Complete, Begun, e, n
    <3>3. QED
      BY <3>1, <3>2
  <2>4. QED
    BY <1>7, <2>1, <2>3, Arrive DEF e, n
<1>8. CASE k \in 1..n
  <2>1. k \in DOMAIN e
    BY <1>2, <1>8
  <2>2. CASE e[k][2] = "empty"
    <3>1. /\ UNCHANGED <<file, toks, sequence>> /\ pc' = "pair" /\ pos' = PairAt(file, i, j, k + 1) + 1
          /\ PairsRead(i, j, k) /\ (IsPeers(file.sections[i]) => k < n)
      BY <2>1, <2>2, EmptyPair DEF e, n
    <3>2. CASE k # n
      <4>1. k \in 1..n - 1
        BY <1>2, <1>8, <3>2
      <4>2. QED
        BY <1>7, <3>1, <4>1
    <3>3. CASE k = n
      <4>1. ~IsPeers(file.sections[i])
        BY <1>2, <3>1, <3>3
      <4>2. AtPair(i, j, k + 1)'
        <5>1. ReadsAsPeers(i)'
          BY <1>1, <3>1 DEF ReadsAsPeers
        <5>2. QED
          BY <3>1, <4>1, <5>1 DEF AtPair, PairsRead, CompleteThen, BegunThen, Complete, Begun
      <4>3. k + 1 \in 1..n + 1
        BY <1>2, <3>3
      <4>4. QED
        BY <3>1, <4>2, <4>3, Arrive DEF e, n
    <3>4. QED
      BY <3>2, <3>3
  <2>3. CASE e[k][2] # "empty"
    <3>1. /\ UNCHANGED <<file, toks, sequence>> /\ pc' = "pair"
          /\ pos' = PairAt(file, i, j, k + 1) + IF k = n THEN 2 ELSE 1
          /\ PairsRead(i, j, k)
      BY <2>1, <2>3, FullPair DEF e, n
    <3>2. CASE k # n
      <4>1. k \in 1..n - 1
        BY <1>2, <1>8, <3>2
      <4>2. QED
        BY <1>7, <3>1, <3>2, <4>1
    <3>3. CASE k = n
      <4>1. pos' = EntAt(file, i, j + 1) + 1
        BY <1>3, <3>1, <3>3
      <4>2. ReadsAsPeers(i)' /\ pc' \in LoopsOf(i)
        BY <1>1, <3>1 DEF ReadsAsPeers, LoopsOf
      <4>3. CompleteThen(Rank(file, i, j + 1))
        BY <1>4, <1>5, <3>1, <3>3 DEF PairsRead, CompleteThen, e, r
      <4>4. QED
        BY <3>1, <4>1, <4>2, <4>3, NextEntry
    <3>4. QED
      BY <3>2, <3>3
  <2>4. QED
    BY <2>2, <2>3
<1>9. QED
  BY <1>2, <1>6, <1>8 DEF e, n

\* At the END of a section.
LEMMA AtSectionEndStep ==
  ASSUME Loading, Next, NEW i \in DOMAIN file.sections, file.sections[i].entries # <<>>, AtSectionEnd(i)
  PROVE  Somewhere' /\ UNCHANGED <<file, toks>>
<1> DEFINE z == SecAt(file, i + 1)
<1>1. /\ z \in Nat /\ z + 2 <= Len(toks) /\ Len(toks) \in Nat /\ Tok(z).type = "END"
  BY SectionToks, LoadingFacts
<1>2. /\ pc \in {"outer", "skip", "entry", "pair"} /\ pos = z
      /\ NoPeersBefore(i + 1) /\ Complete(SecRank(file, i + 1))
  BY DEF AtSectionEnd
<1>3. Moved("outer")
  BY <1>1, <1>2, OuterMoves, SkipMoves, EntryMoves, PairMoves
<1>4. CompleteThen(SecRank(file, i + 1)) /\ UNCHANGED <<file, toks, sequence>> /\ pc' = "outer" /\ pos' = pos + 1
  BY <1>1, <1>2, <1>3, MovedKeeps
<1>5. AtSection(i + 1)'
  BY <1>2, <1>4 DEF AtSection, NoPeersBefore, CompleteThen, BegunThen, Complete, Begun
<1>6. i + 1 \in 2..Len(file.sections) + 1
  BY LoadingFacts
<1>7. QED
  BY <1>4, <1>5, <1>6 DEF Somewhere

\* At the KEY of a section, the first left out.
LEMMA AtSectionStep ==
  ASSUME Loading, Next, NEW i \in DOMAIN file.sections, i # 1, AtSection(i)
  PROVE  Somewhere' /\ UNCHANGED <<file, toks>>
<1> DEFINE s == file.sections[i]
           p == SecAt(file, i)
           c == SecRank(file, i)
<1>1. pc = "outer" /\ pos = p + 1 /\ NoPeersBefore(i) /\ Complete(c)
  BY DEF AtSection
<1>2. /\ p \in Nat /\ Len(toks) \in Nat /\ SecAt(file, i + 1) \in Nat /\ SecAt(file, i + 1) + 2 <= Len(toks)
      /\ Tok(p + 1).type = "KEY" /\ Tok(p + 2) = Scalar(s.key) /\ Tok(p + 3).type = "VALUE"
      /\ s.entries = <<>> => SecAt(file, i + 1) = p + 4 /\ Tok(p + 4).type = "SCALAR"
      /\ s.entries # <<>> => Tok(p + 4).type = "SEQ" /\ EntAt(file, i, 1) = p + 4
  BY SectionToks, LoadingFacts
<1>3. pos + 1 = p + 2 /\ pos + 2 = p + 3 /\ pos + 3 = p + 4 /\ pos + 4 = p + 5 /\ pos \in Nat
  BY <1>1, <1>2
<1>4. /\ Tok(pos).type = "KEY" /\ Tok(pos + 1).type = "SCALAR" /\ Tok(pos + 1).value = s.key
      /\ Tok(pos + 2).type = "VALUE"
  <2>1. Scalar(s.key).type = "SCALAR" /\ Scalar(s.key).value = s.key
    BY MarkTypes
  <2> HIDE DEF p, s
  <2>2. QED
    BY <1>1, <1>2, <1>3, <2>1
<1> HIDE DEF p, c
<1>5. Section \/ NoSection
  BY <1>1, <1>4 DEF Next, Is, Go,
         OpenFails, Open, Finish, SkipStart, SkipKey, SkipToken, Section, NoSection, OuterToken,
         EntryStart, EntryToken, PairsDone, PairSkipped, Pair, PairDies
<1>6. CASE s.entries = <<>>
  <2>1. NoSection /\ UNCHANGED <<sequence, peerid, peer, MPL>> /\ Go("outer", "outer", 4)
    BY <1>2, <1>3, <1>4, <1>5, <1>6 DEF Section, NoSection, Is
  <2>2. Scan(4) = pos + 4
    BY <1>2, <1>3, <1>6, ScanFits
  <2>3. UNCHANGED <<file, toks>> /\ pc' = "outer" /\ pos' = SecAt(file, i + 1) + 1
    BY <1>2, <1>3, <1>6, <2>1, <2>2 DEF Go
  <2>4. SecRank(file, i + 1) = c
    BY <1>6, LoadingFacts, RankFacts DEF c
  <2>5. CompleteThen(c)
    BY <1>1, <2>1, BegunKept
  <2>6. NoPeersBefore(i + 1)'
    <3>1. \A h \in 1..i - 1 : h \in 1..(i + 1) - 1
      BY LoadingFacts
    <3>2. QED
      BY <1>1, <2>1, <2>3, <3>1 DEF NoPeersBefore
  <2>7. AtSection(i + 1)'
    BY <2>3, <2>4, <2>5, <2>6 DEF AtSection, CompleteThen, BegunThen, Complete, Begun
  <2>8. i + 1 \in 2..Len(file.sections) + 1
    BY LoadingFacts
  <2>9. QED
    BY <2>3, <2>7, <2>8 DEF Somewhere
<1>7. CASE s.entries # <<>>
  <2>1. 1 \in DOMAIN s.entries
    <3>1. DOMAIN s.entries = 1..Len(s.entries) /\ s.entries \in Seq(Entry)
      BY LoadingFacts, EntPartsType DEF FileOK, SectionOK, Entry
    <3> HIDE DEF s, Entry
    <3>2. QED
      BY <1>7, <3>1
  <2>2. Tok(EntAt(file, i, 1) + 1).type = "ENTRY" /\ EntAt(file, i, 1) + 2 <= Len(toks)
    <3>1. /\ Tok(EntAt(file, i, 1) + 1).type = "ENTRY" /\ EntAt(file, i, 1) + 2 <= EntAt(file, i, 1 + 1)
          /\ EntAt(file, i, 1 + 1) <= Len(toks) /\ EntAt(file, i, 1) \in Nat /\ EntAt(file, i, 1 + 1) \in Nat
      BY <2>1, EntryToks
    <3>2. QED
      BY <1>2, <3>1
  <2>3. Tok(pos + 4).type = "ENTRY" /\ Tok(pos + 3).type = "SEQ" /\ (p + 4) + 1 = p + 5
    BY <1>2, <1>3, <1>7, <2>2
  <2>4. Section
    BY <1>4, <1>5, <2>3 DEF NoSection, Is
  <2>5. /\ key' = s.key /\ UNCHANGED <<peerid, peer, MPL>> /\ Go("outer", "entry", 5)
        /\ sequence' = CASE key' = "symmetric-peers" -> SEQ_SPEER
                         [] key' = "assymetric-peers" -> SEQ_APEER
                         [] OTHER -> sequence
    BY <1>4, <2>3, <2>4 DEF Section, Is
  <2>6. Scan(5) = pos + 5
    <3>1. pos + 5 <= Len(toks) + 1
      BY <1>1, <1>2, <1>7, <2>2
    <3>2. QED
      BY <1>2, <1>3, <3>1, ScanFits
  <2>7. UNCHANGED <<file, toks>> /\ pc' = "entry" /\ pos' = EntAt(file, i, 1) + 2
    BY <1>1, <1>2, <1>7, <2>5, <2>6 DEF Go
  <2>8. CompleteThen(Rank(file, i, 1))
    <3>1. Rank(file, i, 1) = c
      BY LoadingFacts, RankFacts DEF c
    <3>2. QED
      BY <1>1, <2>5, <3>1, BegunKept
  <2>9. IF IsPeers(s) THEN sequence' = SEQ_SPEER ELSE sequence' # SEQ_SPEER
    <3>1. CASE IsPeers(s)
      BY <2>5, <3>1 DEF IsPeers
    <3>2. CASE ~IsPeers(s)
      <4>1. key' # "symmetric-peers"
        BY <2>5, <3>2 DEF IsPeers
      <4>2. CASE key' = "assymetric-peers"
        BY <2>5, <3>2, <4>1, <4>2 DEF SEQ_APEER, SEQ_SPEER
      <4>3. CASE key' # "assymetric-peers"
        <5>1. sequence' = sequence
          BY <2>5, <4>1, <4>3
        <5>2. ASSUME NEW h \in 1..i - 1, IsPeers(file.sections[h]) PROVE FALSE
          <6>1. h \in DOMAIN file.sections /\ h < i
            BY LoadingFacts
          <6>2. s.key \in {"symmetric-peers", "assymetric-peers"}
            BY <1>7, <5>2, <6>1 DEF Loading, Regular, IsPeers
          <6>3. QED
            BY <2>5, <4>1, <4>3, <6>2
        <5>3. QED
          BY <1>1, <3>2, <5>1, <5>2 DEF NoPeersBefore
      <4>4. QED
        BY <3>2, <4>2, <4>3
    <3>3. QED
      BY <3>1, <3>2
  <2>10. ReadsAsPeers(i)' /\ pc' \in LoopsOf(i) \ {"pair"}
    BY <2>7, <2>9 DEF ReadsAsPeers, LoopsOf
  <2>11. InEntry(i, 1)'
    BY <2>7, <2>8, <2>10 DEF InEntry, LoopsOf, CompleteThen, BegunThen, Complete, Begun
  <2>12. QED
    BY <2>1, <2>7, <2>11, Arrive
<1>8. QED
  BY <1>6, <1>7

\* At the END of the file, behind all sections.
LEMMA AtFileEndStep ==
  ASSUME Loading, Next, AtSection(Len(file.sections) + 1)
  PROVE  Somewhere' /\ UNCHANGED <<file, toks>>
<1> DEFINE z == SecAt(file, Len(file.sections) + 1)
           c == SecRank(file, Len(file.sections) + 1)
<1>1. z \in Nat /\ Len(toks) = z + 2 /\ Tok(z + 1).type = "END" /\ Len(toks) \in Nat
  BY FileToks, LoadingFacts
<1>2. pc = "outer" /\ pos = z + 1 /\ Complete(c)
  BY DEF AtSection
<1>3. Moved("outer") /\ pos \in Nat /\ pos + 1 <= Len(toks) + 1
  BY <1>1, <1>2, OuterMoves
<1>4. CompleteThen(c) /\ UNCHANGED <<file, toks, sequence>> /\ pc' = "outer" /\ pos' = z + 2
  <2>1. CompleteThen(c) /\ UNCHANGED <<file, toks, sequence>> /\ pc' = "outer" /\ pos' = pos + 1
    BY <1>1, <1>2, <1>3, MovedKeeps
  <2>2. QED
    BY <1>1, <1>2, <2>1
<1>5. AtStreamEnd'
  BY <1>4 DEF AtStreamEnd, CompleteThen, BegunThen, Complete, Begun
<1>6. QED
  BY <1>4, <1>5 DEF Somewhere

\* Where the scanner says that the file is at its end.
LEMMA AtStreamEndStep ==
  ASSUME Loading, Next, AtStreamEnd
  PROVE  pc' = "done" /\ LoadsPeers' /\ UNCHANGED <<file, toks>>
<1>1. Tok(pos).type = "STREAM_END" /\ pc = "outer"
  BY FileToks DEF AtStreamEnd
<1>2. Finish
  BY <1>1, OuterMoves
<1>3. /\ Symmetric(file) \in Seq(Entry) /\ Len(Symmetric(file)) = SecRank(file, Len(file.sections) + 1)
  BY LoadingFacts, SymmetricLayout
<1>4. Complete(Len(Symmetric(file)))
  BY <1>3 DEF AtStreamEnd
<1>5. LoadsPeers'
  BY <1>2, <1>3, <1>4, AllLoaded DEF Loading
<1>6. QED
  BY <1>2, <1>5 DEF Finish

\* At the start, before the entries of the first section.
LEMMA AtStartStep ==
  ASSUME Loading, Next, AtStart, pc' # "exited"
  PROVE  Somewhere' /\ UNCHANGED <<file, toks>>
<1>1. /\ Tok(1).type = "STREAM_START" /\ Tok(2).type = "MAP" /\ SecAt(file, 1) = 2 /\ Len(toks) \in Nat
      /\ FileOK(file)
  BY FileToks, LoadingFacts
<1>2. /\ 1 \in DOMAIN file.sections /\ file.sections[1].entries # <<>> /\ ~IsPeers(file.sections[1])
      /\ 1 \in DOMAIN file.sections[1].entries
  <2> DEFINE Secs == [key : STRING, entries : Seq(Seq(Pairing))]
             es == file.sections[1].entries
  <2>1. /\ file.sections \in Seq(Secs) /\ file.sections # <<>> /\ es # <<>> /\ ~IsPeers(file.sections[1])
    BY <1>1 DEF Loading, Regular, FileOK, IsPeers
  <2>2. 1 \in DOMAIN file.sections
    <3> HIDE DEF Secs
    <3>1. QED
      BY <2>1
  <2>3. es \in Seq(Entry)
    BY <1>1, <2>2 DEF FileOK, SectionOK, Entry
  <2>4. 1 \in DOMAIN es
    <3> HIDE DEF Entry, es
    <3>1. QED
      BY <2>1, <2>3
  <2>5. QED
    BY <2>1, <2>2, <2>4
<1>3. /\ Tok(3).type = "KEY" /\ Tok(5).type = "VALUE" /\ Tok(6).type = "SEQ" /\ EntAt(file, 1, 1) = 6
      /\ 8 <= Len(toks)
  <2>1. /\ Tok(2 + 1).type = "KEY" /\ Tok(2 + 3).type = "VALUE" /\ Tok(2 + 4).type = "SEQ"
        /\ EntAt(file, 1, 1) = 2 + 4
    BY <1>1, <1>2, SectionToks
  <2>2. /\ EntAt(file, 1, 1) + 2 <= EntAt(file, 1, 1 + 1)
        /\ EntAt(file, 1, 1 + 1) <= Len(toks) /\ EntAt(file, 1, 1 + 1) \in Nat
    BY <1>2, EntryToks
  <2>3. QED
    BY <1>1, <2>1, <2>2
<1>4. sequence # SEQ_SPEER /\ Complete(0)
  BY DEF AtStart
\* Still before them.
<1>5. ASSUME UNCHANGED <<file, toks, sequence>>, CompleteThen(0),
             (pc' = "outer" /\ pos' \in {1, 2}) \/ (pc' = "skip" /\ pos' = 3)
      PROVE  Somewhere' /\ UNCHANGED <<file, toks>>
  <2>1. AtStart'
    BY <1>4, <1>5 DEF AtStart, CompleteThen, BegunThen, Complete, Begun
  <2>2. QED
    BY <1>5, <2>1 DEF Somewhere
<1>6. CASE pc = "open" /\ pos = 0
  <2>1. Open
    BY <1>6 DEF Next, Go,
         OpenFails, Open, Finish, SkipStart, SkipKey, SkipToken, Section, NoSection, OuterToken,
         EntryStart, EntryToken, PairsDone, PairSkipped, Pair, PairDies
  <2>2. Scan(1) = 1
    BY <1>1, <1>3, <1>6 DEF Scan
  <2>3. UNCHANGED <<file, toks, sequence>> /\ pc' = "outer" /\ pos' = 1 /\ CompleteThen(0)
    BY <1>4, <2>1, <2>2, BegunKept DEF Open, Go, state
  <2>4. (pc' = "outer" /\ pos' \in {1, 2}) \/ (pc' = "skip" /\ pos' = 3)
    BY <2>3
  <2>5. CompleteThen(0) /\ UNCHANGED <<file, toks, sequence>>
    BY <2>3
  <2>6. QED
    BY <1>5, <2>4, <2>5
<1>7. CASE pc = "outer" /\ pos = 1
  <2>1. Moved("outer")
    BY <1>1, <1>7, OuterMoves
  <2>2. CompleteThen(0) /\ UNCHANGED <<file, toks, sequence>> /\ pc' = "outer" /\ pos' = 2
    <3>1. pos + 1 <= Len(toks) + 1 /\ pos \in Nat /\ pos + 1 = 2
      BY <1>1, <1>3, <1>7
    <3>2. QED
      BY <1>1, <1>4, <2>1, <3>1, MovedKeeps
  <2>3. (pc' = "outer" /\ pos' \in {1, 2}) \/ (pc' = "skip" /\ pos' = 3)
    BY <2>2
  <2>4. CompleteThen(0) /\ UNCHANGED <<file, toks, sequence>>
    BY <2>2
  <2>5. QED
    BY <1>5, <2>3, <2>4
<1>8. CASE pc = "outer" /\ pos = 2
  <2>1. Moved("skip")
    BY <1>1, <1>8, OuterMoves
  <2>2. CompleteThen(0) /\ UNCHANGED <<file, toks, sequence>> /\ pc' = "skip" /\ pos' = 3
    <3>1. pos + 1 <= Len(toks) + 1 /\ pos \in Nat /\ pos + 1 = 3
      BY <1>1, <1>3, <1>8
    <3>2. QED
      BY <1>1, <1>4, <2>1, <3>1, MovedKeeps
  <2>3. (pc' = "outer" /\ pos' \in {1, 2}) \/ (pc' = "skip" /\ pos' = 3)
    BY <2>2
  <2>4. CompleteThen(0) /\ UNCHANGED <<file, toks, sequence>>
    BY <2>2
  <2>5. QED
    BY <1>5, <2>3, <2>4
<1>9. CASE pc = "skip" /\ pos = 3
  <2>1. SkipKey
    BY <1>3, <1>9 DEF Next, Is, Go,
         OpenFails, Open, Finish, SkipStart, SkipKey, SkipToken, Section, NoSection, OuterToken,
         EntryStart, EntryToken, PairsDone, PairSkipped, Pair, PairDies
  <2>2. Go("skip", "skip", 4) /\ UNCHANGED <<sequence, peerid, peer, MPL>>
    <3>1. pos + 2 = 5 /\ pos + 3 = 6
      BY <1>9
    <3>2. QED
      BY <1>3, <2>1, <3>1 DEF SkipKey, Is
  <2>3. Scan(4) = 7
    BY <1>1, <1>3, <1>9 DEF Scan
  <2>4. UNCHANGED <<file, toks, sequence>> /\ pc' = "skip" /\ pos' = EntAt(file, 1, 1) + 1
    BY <1>3, <2>2, <2>3 DEF Go
  <2>5. CompleteThen(Rank(file, 1, 1))
    <3>1. Rank(file, 1, 1) = SecRank(file, 1)
      BY <1>1, <1>2, RankFacts
    <3>2. SecRank(file, 1) = 0
      BY <1>1, SymmetricLayout
    <3>3. CompleteThen(0)
      BY <1>4, <2>2, BegunKept
    <3>4. QED
      BY <3>1, <3>2, <3>3
  <2>6. ReadsAsPeers(1)' /\ pc' \in LoopsOf(1)
    BY <1>2, <1>4, <2>4 DEF ReadsAsPeers, NoPeersBefore, LoopsOf
  <2>7. AtEntry(1, 1)'
    BY <2>4, <2>5, <2>6 DEF AtEntry, LoopsOf, CompleteThen, BegunThen, Complete, Begun
  <2>8. QED
    BY <1>2, <2>4, <2>7, Arrive
<1>10. QED
  BY <1>6, <1>7, <1>8, <1>9 DEF AtStart

\* Wherever load_config is, it goes on to the next such place.
LEMMA SomewhereStep ==
  ASSUME Loading, Next, Somewhere, pc' # "exited"
  PROVE  UNCHANGED <<file, toks>> /\ (Somewhere' \/ (pc' = "done" /\ LoadsPeers'))
<1>1. CASE AtStart
  BY <1>1, AtStartStep
<1>2. ASSUME NEW i \in 2..Len(file.sections) + 1, AtSection(i)
      PROVE  UNCHANGED <<file, toks>> /\ Somewhere'
  <2>1. i = Len(file.sections) + 1 \/ (i \in DOMAIN file.sections /\ i # 1)
    BY LoadingFacts
  <2>2. QED
    BY <1>2, <2>1, AtSectionStep, AtFileEndStep
<1>3. CASE AtStreamEnd
  BY <1>3, AtStreamEndStep
<1>4. ASSUME NEW i \in DOMAIN file.sections, file.sections[i].entries # <<>>, AtSectionEnd(i)
      PROVE  UNCHANGED <<file, toks>> /\ Somewhere'
  BY <1>4, AtSectionEndStep
<1>5. ASSUME NEW i \in DOMAIN file.sections, NEW j \in DOMAIN file.sections[i].entries,
             \/ AtEntry(i, j) \/ InEntry(i, j)
             \/ file.sections[i].entries[j] # <<>> /\ \E k \in 1..Len(file.sections[i].entries[j]) + 1 :
                   AtPair(i, j, k) \/ \E c \in Places(i, j, k) : InSkip(i, j, k, c)
      PROVE  UNCHANGED <<file, toks>> /\ Somewhere'
  BY <1>5, AtEntryStep, InEntryStep, AtPairStep, InSkipStep
<1>6. QED
  BY <1>1, <1>2, <1>3, <1>4, <1>5 DEF Somewhere

(* The theorem.                                                             *)

\* load_config() starts there.
LEMMA LoadsInit ==
  ASSUME Init
  PROVE  LoadsInv
<1>1. /\ file.good = All => toks = Tokens(file)
      /\ pc = "open" /\ pos = 0 /\ sequence = 0 /\ peerid = 1
  BY DEF Init
<1>2. Complete(0)
  BY <1>1 DEF Complete, Begun
<1>3. AtStart
  BY <1>1, <1>2 DEF AtStart, SEQ_SPEER
<1>4. QED
  BY <1>1, <1>3 DEF LoadsInv, Somewhere

\* A step that changes nothing leaves load_config where it is.
LEMMA SomewhereStutters ==
  ASSUME UNCHANGED <<file, pos, pc, name, last_name, sequence, peerid, peer, MPL>>, Somewhere
  PROVE  Somewhere'
<1>1. ASSUME NEW n, NEW e, Begun(n, e)
      PROVE  Begun(n, e)'
  BY <1>1 DEF Begun
<1>2. ASSUME NEW n, Complete(n)
      PROVE  Complete(n)'
  BY <1>2 DEF Complete, Begun
<1>3. ASSUME NEW i, NoPeersBefore(i)
      PROVE  NoPeersBefore(i)'
  BY <1>3 DEF NoPeersBefore
<1>4. ASSUME NEW i, ReadsAsPeers(i)
      PROVE  ReadsAsPeers(i)'
  BY <1>3, <1>4 DEF ReadsAsPeers
<1>5. CASE AtStart
  BY <1>2, <1>5 DEF AtStart, Somewhere
<1>6. ASSUME NEW i \in 2..Len(file.sections) + 1, AtSection(i)
      PROVE  Somewhere'
  <2>1. AtSection(i)'
    BY <1>2, <1>3, <1>6 DEF AtSection
  <2>2. QED
    BY <2>1 DEF Somewhere
<1>7. CASE AtStreamEnd
  <2>1. AtStreamEnd'
    BY <1>2, <1>7 DEF AtStreamEnd
  <2>2. QED
    BY <2>1 DEF Somewhere
<1>8. ASSUME NEW i \in DOMAIN file.sections, file.sections[i].entries # <<>>, AtSectionEnd(i)
      PROVE  Somewhere'
  <2>1. AtSectionEnd(i)'
    BY <1>2, <1>3, <1>8 DEF AtSectionEnd
  <2>2. QED
    BY <1>8, <2>1 DEF Somewhere
<1>9. ASSUME NEW i \in DOMAIN file.sections, NEW j \in DOMAIN file.sections[i].entries,
             AtEntry(i, j) \/ InEntry(i, j)
      PROVE  Somewhere'
  <2>1. /\ ReadsAsPeers(i) => ReadsAsPeers(i)'
        /\ Complete(Rank(file, i, j)) => Complete(Rank(file, i, j))'
    BY <1>2, <1>4
  <2>2. AtEntry(i, j)' \/ InEntry(i, j)'
    BY <1>9, <2>1 DEF AtEntry, InEntry, LoopsOf
  <2>3. QED
    BY <2>2 DEF Somewhere
<1>10. ASSUME NEW i \in DOMAIN file.sections, NEW j \in DOMAIN file.sections[i].entries,
              file.sections[i].entries[j] # <<>>,
              NEW k \in 1..Len(file.sections[i].entries[j]) + 1,
              AtPair(i, j, k) \/ \E c \in Places(i, j, k) : InSkip(i, j, k, c)
       PROVE  Somewhere'
  <2>1. AtPair(i, j, k) => AtPair(i, j, k)'
    BY <1>1, <1>2, <1>4 DEF AtPair
  <2>2. ASSUME NEW c, InSkip(i, j, k, c)
        PROVE  InSkip(i, j, k, c)'
    BY <1>2, <1>3, <2>2 DEF InSkip
  <2>3. Places(i, j, k)' = Places(i, j, k)
    BY DEF Places, Pairs
  <2>4. QED
    BY <1>10, <2>1, <2>2, <2>3 DEF Somewhere
<1>11. QED
  BY <1>5, <1>6, <1>7, <1>8, <1>9, <1>10 DEF Somewhere

\* Every step keeps the invariant.
LEMMA LoadsNext ==
  ASSUME LoadInv, LoadsInv, [Next]_vars
  PROVE  LoadsInv'
<1>1. UNCHANGED <<file, toks>>
  BY Steps
<1>2. CASE UNCHANGED vars
  <2>1. UNCHANGED <<file, toks, pos, pc, sequence, peer_init, peerid, peer, MPL, key, name, last_name, ret>>
    BY <1>2 DEF vars, state
  <2>2. LoadsPeers' <=> LoadsPeers
    BY <2>1 DEF LoadsPeers
  <2>3. Somewhere => Somewhere'
    BY <2>1, SomewhereStutters
  <2>4. QED
    BY <2>1, <2>2, <2>3 DEF LoadsInv
<1>3. CASE Next /\ file.good = All /\ Regular(file)
  <2>1. Loading
    BY <1>3 DEF Loading, LoadsInv, LoadInv, TokInv
  <2>2. CASE pc' = "exited"
    BY <1>1, <2>1, <2>2 DEF LoadsInv, Loading
  <2>3. CASE pc \in {"exited", "done"}
    BY <1>3, <2>3 DEF Next, Go,
         OpenFails, Open, Finish, SkipStart, SkipKey, SkipToken, Section, NoSection, OuterToken,
         EntryStart, EntryToken, PairsDone, PairSkipped, Pair, PairDies
  <2>4. CASE pc' # "exited" /\ pc \notin {"exited", "done"}
    <3>1. Somewhere
      BY <1>3, <2>4 DEF LoadsInv
    <3>2. Somewhere' \/ (pc' = "done" /\ LoadsPeers')
      BY <1>3, <2>1, <2>4, <3>1, SomewhereStep
    <3>3. Somewhere' => pc' \notin {"exited", "done"}
      BY DEF Somewhere, AtStart, AtSection, AtStreamEnd, AtSectionEnd, AtEntry, InEntry, AtPair, InSkip, LoopsOf
    <3>4. QED
      BY <1>1, <2>1, <3>2, <3>3 DEF LoadsInv, Loading
  <2>5. QED
    BY <2>2, <2>3, <2>4
<1>4. CASE file.good # All \/ ~Regular(file)
  BY <1>1, <1>4 DEF LoadsInv, Regular
<1>5. QED
  BY <1>2, <1>3, <1>4

\* The list that load_config() makes of a file of the layout of sample.yaml is
\* its symmetric peers, complete and in order, whichever else there are: it
\* reads none of them twice, leaves none out, and gives no field to another.
THEOREM RegularLoaded == Spec => []LoadsPeers
<1>1. Init => LoadsInv
  BY LoadsInit
<1>2. LoadInv /\ LoadsInv /\ [Next]_vars => LoadsInv'
  BY LoadsNext
<1>3. LoadInv /\ LoadsInv => LoadsPeers
  BY DEF LoadInv, PcInv, LoadsInv, LoadsPeers
<1>4. QED
  BY <1>1, <1>2, <1>3, LoadInvAlways, PTL DEF Spec
=============================================================================
