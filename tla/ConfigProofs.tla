----------------------------- MODULE ConfigProofs -----------------------------
(***************************************************************************)
(* What load_config() does to the list of peers, for all files and all     *)
(* sequences of tokens the scanner may make of them.  Of a file only       *)
(* FilesAssumption is used: its tokens are tokens, and the end of the      *)
(* stream comes last.  The list is followed by numbers: the peer that is   *)
(* being filled is the latest, and those before it are on the list.        *)
(***************************************************************************)
EXTENDS Config, SequenceTheorems, TLAPS

\* Strings; the literals are listed for the provers, which take STRING for a
\* set that they know nothing of.
Text == STRING \cup {"", "NONE", Unset, "IN", "OUT", "MAP"}

Token == [type : Text, value : Text]
PeerRec == [id : Nat, name : Text, direction : Text, threads : Int,
            peer_ip : Text, ifname : Text]

\* Only a file that is not rejected has an end.
TokInv == /\ file \in Files
          /\ toks \in Seq(Token)
          /\ file.good # All => \A i \in DOMAIN toks : toks[i].type # "STREAM_END"
          /\ pos \in 0..Len(toks) + 1

\* Where load_config is; it is done only behind the end of the stream.
PcInv == /\ pc \in {"open", "outer", "skip", "entry", "pair", "done", "exited"}
         /\ ret \in {0, 1}
         /\ file.good # All => pc # "done"

\* What the loops keep between the tokens.
FieldInv == /\ key \in Text /\ name \in Text /\ last_name \in Text
            /\ sequence \in {0, SEQ_APEER, SEQ_SPEER}
            /\ peer_init \in BOOLEAN /\ peer \in PeerRec /\ MPL \in Seq(PeerRec)

\* Peers are numbered as they are begun; all but the latest are on the list,
\* and in the end that one too.
ListInv ==
  /\ peerid \in Nat \ {0}
  /\ ~peer_init => peerid = 1 /\ MPL = <<>> /\ peer.id = 0
  /\ peer_init => peerid > 1 /\ peer.id = peerid - 1
  /\ Len(MPL) = IF peer_init /\ pc # "done" THEN peerid - 2 ELSE peerid - 1
  /\ \A i \in DOMAIN MPL : MPL[i].id = Len(MPL) + 1 - i

LoadInv == TokInv /\ PcInv /\ FieldInv /\ ListInv

\* The scanner gives tokens, also behind the end.
LEMMA TokType == ASSUME TokInv, NEW p PROVE Tok(p) \in Token
<1>1. Mark("NONE") \in Token
  BY DEF Mark, Token, Text
<1>2. p \in DOMAIN toks => toks[p] \in Token
  <2> HIDE DEF Token
  <2> QED
    BY DEF TokInv
<1>3. QED
  BY <1>1, <1>2 DEF Tok

\* Putting an element in front of a list.
LEMMA PushFacts ==
  ASSUME NEW S, NEW s \in Seq(S), NEW e \in S
  PROVE  /\ <<e>> \o s \in Seq(S)
         /\ Len(<<e>> \o s) = Len(s) + 1
         /\ (<<e>> \o s)[1] = e
         /\ \A i \in 2..Len(s) + 1 : (<<e>> \o s)[i] = s[i - 1]
  OBVIOUS

\* Nothing has been scanned, and no peer begun.
LEMMA InitInv == Init => LoadInv
<1> SUFFICES ASSUME Init PROVE LoadInv
  OBVIOUS
<1>1. TokInv
  <2>1. file \in Files /\ pos = 0 /\ Tokens(file) \in Seq(Token)
    <3>1. [type : STRING, value : STRING] \subseteq Token
      BY DEF Token, Text
    <3>2. file \in Files /\ pos = 0 /\ Tokens(file) \in Seq([type : STRING, value : STRING])
      BY FilesAssumption DEF Init
    <3>3. QED
      <4> HIDE DEF Token
      <4> DEFINE Str == [type : STRING, value : STRING]
      <4>1. Str \subseteq Token /\ Tokens(file) \in Seq(Str)
        BY <3>1, <3>2
      <4> HIDE DEF Str
      <4>2. QED
        BY <3>2, <4>1
  <2>2. CASE file.good = All
    BY <2>1, <2>2 DEF Init, TokInv
  <2>3. CASE file.good # All
    <3>1. /\ file.good \in Nat /\ file.good < Len(Tokens(file))
          /\ toks = SubSeq(Tokens(file), 1, file.good)
      BY <2>1, <2>3, FilesAssumption DEF Init
    <3>2. /\ toks \in Seq(Token) /\ Len(toks) = file.good
          /\ \A i \in 1..file.good : toks[i] = Tokens(file)[i]
      BY <2>1, <3>1
    <3>3. \A i \in 1..file.good : i \in DOMAIN Tokens(file) /\ i # Len(Tokens(file))
      BY <2>1, <3>1
    <3>4. \A i \in 1..file.good : Tokens(file)[i].type # "STREAM_END"
      BY <2>1, <3>3, FilesAssumption
    <3>5. DOMAIN toks = 1..file.good
      BY <3>2
    <3>6. QED
      BY <2>1, <3>1, <3>2, <3>4, <3>5 DEF TokInv
  <2>4. QED
    BY <2>2, <2>3
<1>2. PcInv
  BY DEF Init, PcInv
<1>3. FieldInv
  <2>1. NewPeer(Unset, 0) \in PeerRec
    BY DEF PeerRec, NewPeer, Text
  <2>2. peer_init \in BOOLEAN
    BY DEF Init
  <2>3. QED
    BY <2>1, <2>2 DEF Init, FieldInv, Text
<1>4. ListInv
  BY DEF Init, ListInv, NewPeer
<1>5. QED
  BY <1>1, <1>2, <1>3, <1>4 DEF LoadInv

\* Every step stays in the loops, scans at most five tokens and leaves the file
\* alone, but for Finish and the two that end the process.
LEMMA Steps ==
  ASSUME [Next]_vars
  PROVE  /\ UNCHANGED <<file, toks>>
         /\ pos' = pos \/ \E n \in 0..5 : pos' = Scan(n)
         /\ \/ pc' \in {"outer", "skip", "entry", "pair", "exited"} /\ pc # "done" /\ ret' = ret
            \/ Finish
            \/ UNCHANGED <<pc, ret>>
<1>1. ASSUME NEW from \in {"open", "outer", "skip", "entry", "pair"},
             NEW to \in {"outer", "skip", "entry", "pair"}, NEW n \in 0..5, Go(from, to, n)
      PROVE  /\ UNCHANGED <<file, toks>> /\ \E m \in 0..5 : pos' = Scan(m)
             /\ pc' \in {"outer", "skip", "entry", "pair", "exited"} /\ pc # "done" /\ ret' = ret
  BY <1>1 DEF Go
<1>2. CASE Open \/ SkipStart \/ OuterToken \/ EntryStart \/ EntryToken \/ SkipToken
  BY <1>1, <1>2 DEF Open, SkipStart, OuterToken, EntryStart, EntryToken, SkipToken
<1>3. CASE SkipKey
  <2>1. PICK n \in {2, 3} : Go("skip", "outer", n + 1) \/ Go("skip", "skip", n + 1)
    BY <1>3 DEF SkipKey
  <2>2. n + 1 \in 0..5
    OBVIOUS
  <2>3. QED
    BY <1>1, <2>1, <2>2
<1>4. CASE Section \/ NoSection \/ PairsDone \/ PairSkipped
  BY <1>1, <1>4 DEF Section, NoSection, PairsDone, PairSkipped
<1>5. CASE Pair
  BY <1>1, <1>5 DEF Pair
<1>6. CASE OpenFails \/ PairDies
  BY <1>6 DEF OpenFails, PairDies
<1>7. CASE Finish
  BY <1>7 DEF Finish
<1>8. CASE UNCHANGED vars
  BY <1>8 DEF vars
<1>9. QED
  BY <1>2, <1>3, <1>4, <1>5, <1>6, <1>7, <1>8 DEF Next

LEMMA NextTokInv == TokInv /\ [Next]_vars => TokInv'
<1> SUFFICES ASSUME TokInv, [Next]_vars PROVE TokInv'
  OBVIOUS
<1>1. Len(toks) \in Nat /\ pos \in Int
  BY DEF TokInv
<1>2. pos' \in 0..Len(toks) + 1
  BY <1>1, Steps DEF TokInv, Scan
<1>3. QED
  BY <1>2, Steps DEF TokInv

\* The end of the stream is not among the tokens of a file that is rejected, and
\* no loop takes another token for it.
LEMMA NextPcInv == TokInv /\ PcInv /\ [Next]_vars => PcInv'
<1> SUFFICES ASSUME TokInv, PcInv, [Next]_vars PROVE PcInv'
  OBVIOUS
<1>1. CASE Finish
  <2>1. Tok(pos).type = "STREAM_END"
    BY <1>1 DEF Finish, Is
  <2>2. pos \in DOMAIN toks /\ toks[pos].type = "STREAM_END"
    BY <2>1 DEF Tok, Mark
  <2>3. QED
    BY <1>1, <2>2 DEF Finish, TokInv, PcInv
<1>2. CASE ~Finish
  BY <1>2, Steps DEF PcInv
<1>3. QED
  BY <1>1, <1>2

\* The keys, and what a section makes of them; the peers are left alone.
KeySteps == SkipKey \/ Section \/ NoSection \/ PairSkipped

LEMMA OtherSteps ==
  ASSUME [Next]_vars, ~(Finish \/ Pair \/ KeySteps)
  PROVE  UNCHANGED state /\ (pc' = "done" <=> pc = "done")
<1>1. CASE UNCHANGED vars
  BY <1>1 DEF vars
<1>2. CASE OpenFails \/ PairDies
  BY <1>2 DEF OpenFails, PairDies
<1>3. CASE SkipToken \/ EntryToken \/ PairsDone
  BY <1>3 DEF SkipToken, EntryToken, PairsDone, Go
<1>4. CASE Open \/ SkipStart \/ OuterToken \/ EntryStart
  BY <1>4 DEF Open, SkipStart, OuterToken, EntryStart, Go
<1>5. QED
  BY <1>1, <1>2, <1>3, <1>4 DEF Next, KeySteps

LEMMA KeyFacts ==
  ASSUME TokInv, FieldInv, KeySteps
  PROVE  /\ UNCHANGED <<name, last_name, peer_init, peerid, peer, MPL>>
         /\ key' \in Text /\ sequence' \in {0, SEQ_APEER, SEQ_SPEER}
         /\ pc # "done" /\ pc' # "done"
<1>1. Tok(pos + 1).value \in Text
  BY TokType DEF Token
<1>2. CASE Section
  <2>1. /\ key' = IF Is(pos + 1, {"SCALAR"}) THEN Tok(pos + 1).value ELSE key
        /\ UNCHANGED <<name, last_name, peer_init, peerid, peer, MPL>>
        /\ pc # "done" /\ pc' # "done"
    BY <1>2 DEF Section, Go
  <2>2. sequence' \in {sequence, SEQ_APEER, SEQ_SPEER}
    BY <1>2 DEF Section
  <2>3. QED
    BY <1>1, <2>1, <2>2 DEF FieldInv
<1>3. CASE NoSection
  BY <1>1, <1>3 DEF NoSection, Go, FieldInv
<1>4. CASE PairSkipped
  BY <1>1, <1>4 DEF PairSkipped, Go, FieldInv
<1>5. CASE SkipKey
  <2>1. /\ key' = IF Is(pos + 1, {"SCALAR"}) THEN Tok(pos + 1).value ELSE key
        /\ UNCHANGED <<name, last_name, sequence, peer_init, peerid, peer, MPL>>
        /\ \E n : Go("skip", "outer", n) \/ Go("skip", "skip", n)
    BY <1>5 DEF SkipKey
  <2>2. pc # "done" /\ pc' # "done"
    BY <2>1 DEF Go
  <2>3. QED
    BY <1>1, <2>1, <2>2 DEF FieldInv
<1>6. QED
  BY <1>2, <1>3, <1>4, <1>5 DEF KeySteps

\* A pair fills a field of the peer, which keeps its number, ...
LEMMA SetFieldType ==
  ASSUME NEW p \in PeerRec, NEW k, NEW v \in Text
  PROVE  SetField(p, k, v) \in PeerRec /\ SetField(p, k, v).id = p.id
<1>1. Direction(v, p.direction) \in Text
  BY DEF Direction, PeerRec, Text
<1>2. atoi(v) \in Int
  BY DEF atoi
<1>3. "MAP" \in Text
  BY DEF Text
<1>4. QED
  BY <1>1, <1>2, <1>3 DEF SetField, PeerRec

\* ... begins the next peer, or is none of a peer's.
LEMMA PairFacts ==
  ASSUME TokInv, FieldInv, Pair
  PROVE  /\ key' \in Text /\ name' \in Text /\ sequence' = sequence /\ pc' = "pair" /\ pc = "pair"
         /\ \/ UNCHANGED <<last_name, peer_init, peerid, peer, MPL>>
            \/ /\ peer' \in PeerRec /\ peer'.id = peer.id
               /\ UNCHANGED <<last_name, peer_init, peerid, MPL>>
            \/ StartPeer(name')
<1>1. Tok(pos + 1).value \in Text /\ Tok(pos + 3).value \in Text
  BY TokType DEF Token
<1>2. key' \in Text /\ name' \in Text /\ sequence' = sequence /\ pc' = "pair" /\ pc = "pair"
  BY <1>1 DEF Pair, Go, FieldInv
<1>3. SetField(peer, key', Tok(pos + 3).value) \in PeerRec
      /\ SetField(peer, key', Tok(pos + 3).value).id = peer.id
  BY <1>1, SetFieldType DEF FieldInv
<1>4. QED
  BY <1>2, <1>3 DEF Pair

\* Beginning a peer puts the one before it, if there is one, on the list.
LEMMA StartFacts ==
  ASSUME FieldInv, ListInv, pc = "pair", NEW n \in Text, StartPeer(n)
  PROVE  /\ last_name' \in Text /\ peer_init' = TRUE /\ peer' \in PeerRec /\ MPL' \in Seq(PeerRec)
         /\ peerid' = peerid + 1 /\ peer'.id = peerid
         /\ Len(MPL') = peerid - 1
         /\ \A i \in DOMAIN MPL' : MPL'[i].id = peerid - i
<1>1. last_name' = n /\ peer_init' = TRUE /\ peerid' = peerid + 1
  BY DEF StartPeer
<1>2. peer' \in PeerRec /\ peer'.id = peerid
  <2>1. Unset \in Text
    BY DEF Text
  <2>2. NewPeer(n, peerid) \in PeerRec /\ NewPeer(n, peerid).id = peerid
    BY <2>1 DEF NewPeer, PeerRec, ListInv
  <2>3. QED
    BY <2>2 DEF StartPeer
<1>3. CASE peer_init
  <2>1. /\ MPL' = <<peer>> \o MPL /\ peer.id = peerid - 1 /\ Len(MPL) = peerid - 2
        /\ MPL \in Seq(PeerRec) /\ peer \in PeerRec /\ peerid \in Nat
        /\ \A i \in DOMAIN MPL : MPL[i].id = peerid - 1 - i
    BY <1>3 DEF StartPeer, FieldInv, ListInv
  <2> HIDE DEF PeerRec
  <2>2. /\ MPL' \in Seq(PeerRec) /\ Len(MPL') = peerid - 1 /\ MPL'[1] = peer
        /\ \A i \in 2..peerid - 1 : MPL'[i] = MPL[i - 1]
    <3>1. Len(MPL) + 1 = peerid - 1
      BY <2>1
    <3>2. QED
      BY <2>1, <3>1, PushFacts
  <2>3. DOMAIN MPL' = 1..peerid - 1 /\ DOMAIN MPL = 1..peerid - 2
    BY <2>1, <2>2
  <2>4. ASSUME NEW i \in 1..peerid - 1 PROVE MPL'[i].id = peerid - i
    <3>1. CASE i = 1
      BY <2>1, <2>2, <3>1
    <3>2. CASE i # 1
      <4>1. i - 1 \in 1..peerid - 2 /\ i \in 2..peerid - 1
        BY <2>1, <3>2
      <4>2. MPL[i - 1].id = peerid - 1 - (i - 1)
        BY <2>1, <2>3, <4>1
      <4>3. MPL'[i].id = peerid - 1 - (i - 1)
        BY <2>2, <4>1, <4>2
      <4>4. QED
        BY <2>1, <4>3
    <3>3. QED
      BY <3>1, <3>2
  <2>5. QED
    BY <1>1, <1>2, <2>2, <2>3, <2>4
<1>4. CASE ~peer_init
  <2>1. MPL' = <<>> /\ peerid = 1
    BY <1>4 DEF StartPeer, ListInv
  <2>2. QED
    BY <1>1, <1>2, <2>1
<1>5. QED
  BY <1>3, <1>4

\* So does the end of the stream.
LEMMA FinishFacts ==
  ASSUME FieldInv, ListInv, Finish
  PROVE  /\ MPL' \in Seq(PeerRec) /\ Len(MPL') = peerid - 1
         /\ \A i \in DOMAIN MPL' : MPL'[i].id = peerid - i
<1>1. CASE peer_init
  <2>1. /\ MPL' = <<peer>> \o MPL /\ peer.id = peerid - 1 /\ Len(MPL) = peerid - 2
        /\ MPL \in Seq(PeerRec) /\ peer \in PeerRec /\ peerid \in Nat
        /\ \A i \in DOMAIN MPL : MPL[i].id = peerid - 1 - i
    BY <1>1 DEF Finish, FieldInv, ListInv
  <2> HIDE DEF PeerRec
  <2>2. /\ MPL' \in Seq(PeerRec) /\ Len(MPL') = peerid - 1 /\ MPL'[1] = peer
        /\ \A i \in 2..peerid - 1 : MPL'[i] = MPL[i - 1]
    <3>1. Len(MPL) + 1 = peerid - 1
      BY <2>1
    <3>2. QED
      BY <2>1, <3>1, PushFacts
  <2>3. QED
    BY <2>1, <2>2
<1>2. CASE ~peer_init
  BY <1>2 DEF Finish, FieldInv, ListInv
<1>3. QED
  BY <1>1, <1>2

LEMMA NextListInv ==
  TokInv /\ FieldInv /\ ListInv /\ [Next]_vars => FieldInv' /\ ListInv'
<1> SUFFICES ASSUME TokInv, FieldInv, ListInv, [Next]_vars PROVE FieldInv' /\ ListInv'
  OBVIOUS
<1>1. CASE Finish
  <2>1. /\ UNCHANGED <<key, name, last_name, sequence, peer_init, peerid, peer>>
        /\ pc' = "done"
        /\ peer_init => MPL' # <<>> \/ peerid > 1
        /\ ~peer_init => MPL' = MPL
    BY <1>1 DEF Finish, ListInv
  <2>2. FieldInv'
    BY <1>1, <2>1, FinishFacts DEF FieldInv
  <2>3. ListInv'
    BY <1>1, <2>1, FinishFacts DEF ListInv
  <2>4. QED
    BY <2>2, <2>3
<1>2. CASE Pair
  <2>1. key' \in Text /\ name' \in Text /\ sequence' = sequence /\ pc' = "pair" /\ pc = "pair"
    BY <1>2, PairFacts
  <2>2. CASE UNCHANGED <<last_name, peer_init, peerid, peer, MPL>>
    BY <2>1, <2>2 DEF FieldInv, ListInv
  <2>3. CASE peer' \in PeerRec /\ peer'.id = peer.id
             /\ UNCHANGED <<last_name, peer_init, peerid, MPL>>
    <3>1. FieldInv'
      BY <2>1, <2>3 DEF FieldInv
    <3>2. ListInv'
      BY <2>1, <2>3 DEF ListInv
    <3>3. QED
      BY <3>1, <3>2
  <2>4. CASE StartPeer(name')
    <3>1. /\ last_name' \in Text /\ peer_init' = TRUE /\ peer' \in PeerRec
          /\ MPL' \in Seq(PeerRec) /\ peerid' = peerid + 1 /\ peer'.id = peerid
          /\ Len(MPL') = peerid - 1 /\ \A i \in DOMAIN MPL' : MPL'[i].id = peerid - i
      BY <2>1, <2>4, StartFacts
    <3>2. FieldInv'
      <4>1. peer_init' \in BOOLEAN
        BY <3>1
      <4>2. QED
        BY <2>1, <3>1, <4>1 DEF FieldInv
    <3>3. ListInv'
      <4>1. peerid \in Nat \ {0} /\ peer_init' /\ pc' # "done"
        BY <2>1, <3>1 DEF ListInv
      <4>2. \A i \in DOMAIN MPL' : MPL'[i].id = Len(MPL') + 1 - i
        <5>1. DOMAIN MPL' \subseteq Int
          BY <3>1
        <5>2. QED
          BY <3>1, <4>1, <5>1
      <4>3. QED
        BY <3>1, <4>1, <4>2 DEF ListInv
    <3>4. QED
      BY <3>2, <3>3
  <2>5. QED
    BY <1>2, <2>2, <2>3, <2>4, PairFacts
<1>3. CASE KeySteps
  <2>1. /\ UNCHANGED <<name, last_name, peer_init, peerid, peer, MPL>>
        /\ key' \in Text /\ sequence' \in {0, SEQ_APEER, SEQ_SPEER}
        /\ pc # "done" /\ pc' # "done"
    BY <1>3, KeyFacts
  <2>2. QED
    BY <2>1 DEF FieldInv, ListInv
<1>4. CASE ~(Finish \/ Pair \/ KeySteps)
  BY <1>4, OtherSteps DEF FieldInv, ListInv, state
<1>5. QED
  BY <1>1, <1>2, <1>3, <1>4

LEMMA LoadInvAlways == Spec => []LoadInv
<1>1. LoadInv /\ [Next]_vars => LoadInv'
  BY NextTokInv, NextPcInv, NextListInv DEF LoadInv
<1>2. QED
  BY InitInv, <1>1, PTL DEF Spec

-----------------------------------------------------------------------------
\* Every variable has its type: the scanner is never read past its end, and
\* every peer on the list has a number that was given out.
THEOREM TypeCorrect == Spec => []TypeOK
<1>1. LoadInv => TypeOK
  <2> SUFFICES ASSUME LoadInv PROVE TypeOK
    OBVIOUS
  <2>1. peer.id \in 0..peerid - 1
    BY DEF LoadInv, FieldInv, ListInv
  <2>2. \A i \in DOMAIN MPL : MPL[i].id \in 1..peerid - 1
    <3>1. /\ peerid \in Nat /\ Len(MPL) \in Nat /\ DOMAIN MPL = 1..Len(MPL) /\ Len(MPL) <= peerid - 1
          /\ \A i \in DOMAIN MPL : MPL[i].id = Len(MPL) + 1 - i
      BY DEF LoadInv, FieldInv, ListInv
    <3>2. QED
      BY <3>1
  <2>3. QED
    BY <2>1, <2>2 DEF LoadInv, TokInv, PcInv, FieldInv, ListInv, TypeOK
<1>2. QED
  BY <1>1, LoadInvAlways, PTL

\* No peer that was begun is lost, listed twice or out of its place.
THEOREM NoPeerLost == Spec => []AllListed
<1>1. LoadInv => AllListed
  <2> SUFFICES ASSUME LoadInv, pc = "done"
               PROVE  Len(MPL) = peerid - 1 /\ \A i \in DOMAIN MPL : MPL[i].id = peerid - i
    BY DEF AllListed
  <2>1. peerid \in Nat /\ Len(MPL) = peerid - 1 /\ DOMAIN MPL = 1..Len(MPL)
        /\ \A i \in DOMAIN MPL : MPL[i].id = Len(MPL) + 1 - i
    BY DEF LoadInv, FieldInv, ListInv
  <2>2. QED
    BY <2>1
<1>2. QED
  BY <1>1, LoadInvAlways, PTL
=============================================================================
