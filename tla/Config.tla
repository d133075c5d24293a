------------------------------- MODULE Config -------------------------------
(***************************************************************************)
(* load_config() of state.c: a loop over the tokens of the YAML scanner    *)
(* that builds the list of peers MPL.                                      *)
(*                                                                         *)
(* A file is a sequence of sections [key, entries], an entry a sequence of *)
(* pairs <<key, value>>; its tokens are those libyaml produces for it in   *)
(* block style.  Every iteration of one of the nested loops is a step.     *)
(* Names are compared as wholes: the code's strncmp also takes a prefix.   *)
(***************************************************************************)
EXTENDS Integers, Sequences, SequencesExt

CONSTANTS
    Files,          \* the files to load: records [sections, good], where the
                    \* scanner fails after good tokens if that is not All
    Unresolvable    \* peer-ip values that host_to_ip() does not resolve

All == -1

VARIABLES
    file,           \* what is loaded
    toks, pos,      \* the tokens the scanner has for it; how many it has given
    pc,
    key, name, last_name, sequence,
    peer_init, peerid, peer,
    MPL,            \* the peers, latest first, as list_add puts them
    ret             \* what load_config returned, once pc is "done"

state == <<key, name, last_name, sequence, peer_init, peerid, peer, MPL>>
vars == <<file, toks, pos, pc, state, ret>>

-----------------------------------------------------------------------------
(* The token stream (libyaml).                                              *)

Mark(t) == [type |-> t, value |-> ""]
Scalar(v) == [type |-> "SCALAR", value |-> v]

\* A value that is no scalar: an empty one has no token, a nested one opens a
\* sequence.
ValueTokens(v) == CASE v = "empty" -> <<>>
                    [] v = "nested" -> <<Mark("SEQ"), Mark("ENTRY"), Scalar("x"), Mark("END")>>
                    [] OTHER -> <<Scalar(v)>>

PairTokens(p) == <<Mark("KEY"), Scalar(p[1]), Mark("VALUE")>> \o ValueTokens(p[2])

\* An entry without pairs is a plain scalar, and so is a section without entries.
EntryTokens(e) ==
    IF e = <<>> THEN <<Mark("ENTRY"), Scalar("x")>>
    ELSE <<Mark("ENTRY"), Mark("MAP")>>
         \o FlattenSeq([i \in DOMAIN e |-> PairTokens(e[i])]) \o <<Mark("END")>>

SectionTokens(s) ==
    <<Mark("KEY"), Scalar(s.key), Mark("VALUE")>> \o
    IF s.entries = <<>> THEN <<Scalar("x")>>
    ELSE <<Mark("SEQ")>>
         \o FlattenSeq([i \in DOMAIN s.entries |-> EntryTokens(s.entries[i])]) \o <<Mark("END")>>

Tokens(f) == <<Mark("STREAM_START"), Mark("MAP")>>
             \o FlattenSeq([i \in DOMAIN f.sections |-> SectionTokens(f.sections[i])])
             \o <<Mark("END"), Mark("STREAM_END")>>

\* The scanner says that the file is at its end once, last of all, and not if
\* it rejects it.
ASSUME FilesAssumption ==
    \A f \in Files :
        LET t == Tokens(f)
        IN  /\ t \in Seq([type : STRING, value : STRING])
            /\ \A i \in DOMAIN t : t[i].type = "STREAM_END" => i = Len(t)
            /\ f.good # All => f.good \in Nat /\ f.good < Len(t)

\* yaml_parser_scan: behind the end, or behind an error, a token of no type.
Tok(p) == IF p \in DOMAIN toks THEN toks[p] ELSE Mark("NONE")

\* The position after n more scans: past the end all are alike.
Scan(n) == IF pos + n > Len(toks) THEN Len(toks) + 1 ELSE pos + n

Is(p, types) == Tok(p).type \in types

-----------------------------------------------------------------------------
Unset == "unset"    \* what malloc left in a field of struct peer_context

NewPeer(n, id) == [id |-> id, name |-> n, direction |-> Unset, threads |-> -1,
                   peer_ip |-> Unset, ifname |-> Unset]

Init == /\ file \in Files
        /\ toks = (IF file.good = All THEN Tokens(file) ELSE SubSeq(Tokens(file), 1, file.good))
        /\ pos = 0 /\ pc = "open"
        /\ key = Unset /\ name = Unset /\ last_name = Unset /\ sequence = 0
        /\ peer_init = FALSE /\ peerid = 1 /\ peer = NewPeer(Unset, 0)
        /\ MPL = <<>> /\ ret = 0

SEQ_APEER == 2
SEQ_SPEER == 3

\* Scan n tokens and go on at to.
Go(from, to, n) == pc = from /\ pc' = to /\ pos' = Scan(n) /\ UNCHANGED <<file, toks, ret>>

\* An unreadable file is handed to libyaml, whose assertion ends the process.
OpenFails == pc = "open" /\ pc' = "exited" /\ UNCHANGED <<file, toks, pos, state, ret>>

Open == Go("open", "outer", 1) /\ UNCHANGED state

-----------------------------------------------------------------------------
(* The outer loop, one iteration of which starts with token Tok(pos).       *)

\* Fault: the last peer is not put on the list.
FinishWithoutLast ==
          /\ pc = "outer" /\ Is(pos, {"STREAM_END"})
          /\ pc' = "done" /\ ret' = 0
          /\ UNCHANGED <<file, toks, pos, state>>

Finish == /\ pc = "outer" /\ Is(pos, {"STREAM_END"})
          /\ pc' = "done" /\ ret' = 0
          /\ MPL' = IF peer_init THEN <<peer>> \o MPL ELSE MPL
          /\ UNCHANGED <<file, toks, pos, key, name, last_name, sequence, peer_init, peerid, peer>>

\* A mapping that starts in the outer loop is skipped to its first END.
SkipStart == Is(pos, {"MAP"}) /\ Go("outer", "skip", 1) /\ UNCHANGED state

SkipKey == /\ Is(pos, {"KEY"})
           /\ LET n == IF Is(pos + 2, {"VALUE"}) THEN 3 ELSE 2
              IN  IF Is(pos + n, {"END"}) THEN Go("skip", "outer", n + 1) ELSE Go("skip", "skip", n + 1)
           /\ key' = IF Is(pos + 1, {"SCALAR"}) THEN Tok(pos + 1).value ELSE key
           /\ UNCHANGED <<name, last_name, sequence, peer_init, peerid, peer, MPL>>

SkipToken == /\ ~Is(pos, {"KEY"})
             /\ IF Is(pos, {"END"}) THEN Go("skip", "outer", 1) ELSE Go("skip", "skip", 1)
             /\ UNCHANGED state

\* A section: its key decides what its entries are, and an unknown key leaves
\* that as it was.
Section ==
    /\ Is(pos, {"KEY"}) /\ Is(pos + 2, {"VALUE"}) /\ Is(pos + 3, {"SEQ"})
    /\ key' = IF Is(pos + 1, {"SCALAR"}) THEN Tok(pos + 1).value ELSE key
    /\ sequence' = CASE key' = "symmetric-peers" -> SEQ_SPEER
                     [] key' = "assymetric-peers" -> SEQ_APEER
                     [] OTHER -> sequence
    /\ IF Is(pos + 4, {"ENTRY"}) THEN Go("outer", "entry", 5) ELSE Go("outer", "outer", 5)
    /\ UNCHANGED <<name, last_name, peer_init, peerid, peer, MPL>>

NoSection ==
    /\ Is(pos, {"KEY"}) /\ ~(Is(pos + 2, {"VALUE"}) /\ Is(pos + 3, {"SEQ"}))
    /\ key' = IF Is(pos + 1, {"SCALAR"}) THEN Tok(pos + 1).value ELSE key
    /\ Go("outer", "outer", IF Is(pos + 2, {"VALUE"}) THEN 4 ELSE 3)
    /\ UNCHANGED <<name, last_name, sequence, peer_init, peerid, peer, MPL>>

OuterToken == /\ ~Is(pos, {"MAP", "KEY", "STREAM_END"})
              /\ Go("outer", "outer", 1) /\ UNCHANGED state

-----------------------------------------------------------------------------
(* The entries of a section, and the pairs of an entry.                     *)

EntryStart == Is(pos, {"MAP"}) /\ Go("entry", "pair", 1) /\ UNCHANGED state

EntryToken == /\ ~Is(pos, {"MAP"})
              /\ IF Is(pos, {"END"}) THEN Go("entry", "outer", 1) ELSE Go("entry", "entry", 1)
              /\ UNCHANGED state

PairsDone == /\ \/ Is(pos, {"ENTRY"}) /\ Go("pair", "entry", 1)
                \/ Is(pos, {"END"}) /\ Go("pair", "outer", 1)
             /\ UNCHANGED state

\* Fault: a pair that is not understood is not skipped.
PairStuck == /\ Is(pos, {"KEY"})
             /\ ~(Is(pos + 1, {"SCALAR"}) /\ Is(pos + 2, {"VALUE"}) /\ Is(pos + 3, {"SCALAR"}))
             /\ Go("pair", "pair", 0) /\ UNCHANGED state

\* A pair whose value is no scalar: the loop goes on with the token that is
\* there instead.  On any token but KEY, ENTRY and END it turns for ever.
PairSkipped == /\ Is(pos, {"KEY"})
               /\ ~(Is(pos + 1, {"SCALAR"}) /\ Is(pos + 2, {"VALUE"}) /\ Is(pos + 3, {"SCALAR"}))
               /\ Go("pair", "pair", IF ~Is(pos + 1, {"SCALAR"}) THEN 1
                                     ELSE IF ~Is(pos + 2, {"VALUE"}) THEN 2 ELSE 3)
               /\ key' = IF Is(pos + 1, {"SCALAR"}) THEN Tok(pos + 1).value ELSE key
               /\ UNCHANGED <<name, last_name, sequence, peer_init, peerid, peer, MPL>>

Direction(v, old) == CASE v = "ingress" -> "IN" [] v = "egress" -> "OUT"
                       [] v = "map" -> "MAP" [] OTHER -> old

atoi(v) == CASE v = "1" -> 1 [] v = "2" -> 2 [] OTHER -> 0

\* The if-else chain over the keys; "interface" stands for all that only copy
\* the value.
SetField(p, k, v) == CASE k = "type" -> [p EXCEPT !.direction = Direction(v, @)]
                       [] k = "threads" -> [p EXCEPT !.threads = atoi(v)]
                       [] k = "map-interface" -> [p EXCEPT !.direction = "MAP"]
                       [] k = "peer-ip" -> [p EXCEPT !.peer_ip = v]
                       [] k = "interface" -> [p EXCEPT !.ifname = v]
                       [] OTHER -> p

\* Fault: the peer number is advanced before it is used.
StartPeerIdFirst(n) ==
    /\ MPL' = IF peer_init THEN <<peer>> \o MPL ELSE <<>>
    /\ peer_init' = TRUE
    /\ peer' = NewPeer(n, peerid + 1) /\ peerid' = peerid + 1 /\ last_name' = n

\* Fault: only the peer before is kept on the list.
StartPeerNewList(n) ==
    /\ MPL' = IF peer_init THEN <<peer>> ELSE <<>>
    /\ peer_init' = TRUE
    /\ peer' = NewPeer(n, peerid) /\ peerid' = peerid + 1 /\ last_name' = n

\* A key that is a name, or that belongs to another name than the last, starts
\* a peer; the one before it is complete and goes on the list.  The list links
\* the struct that peer points to, and peer is given a new one before anything
\* else is written: what is on the list is the same as a copy.
StartPeer(n) ==
    /\ MPL' = IF peer_init THEN <<peer>> \o MPL ELSE <<>>
    /\ peer_init' = TRUE
    /\ peer' = NewPeer(n, peerid) /\ peerid' = peerid + 1 /\ last_name' = n

Pair ==
    /\ Is(pos, {"KEY"}) /\ Is(pos + 1, {"SCALAR"}) /\ Is(pos + 2, {"VALUE"}) /\ Is(pos + 3, {"SCALAR"})
    /\ key' = Tok(pos + 1).value
    /\ LET v == Tok(pos + 3).value
       IN  /\ name' = IF key' = "name" THEN v ELSE name
           /\ \/ sequence # SEQ_SPEER /\ UNCHANGED <<last_name, peer_init, peerid, peer, MPL>>
              \/ /\ sequence = SEQ_SPEER /\ peer_init /\ key' # "name" /\ last_name = name'
                 /\ ~(key' = "peer-ip" /\ v \in Unresolvable)
                 /\ peer' = SetField(peer, key', v)
                 /\ UNCHANGED <<last_name, peer_init, peerid, MPL>>
              \/ /\ sequence = SEQ_SPEER /\ ~(peer_init /\ key' # "name" /\ last_name = name')
                 /\ StartPeer(name')
    /\ Go("pair", "pair", IF Is(pos + 4, {"END"}) THEN 5 ELSE 4)
    /\ UNCHANGED sequence

\* die(): a peer-ip that does not resolve (local-ip and ip-version likewise).
PairDies == /\ pc = "pair" /\ sequence = SEQ_SPEER /\ peer_init /\ last_name = name
            /\ Is(pos, {"KEY"}) /\ Tok(pos + 1) = Scalar("peer-ip")
            /\ Is(pos + 3, {"SCALAR"}) /\ Tok(pos + 3).value \in Unresolvable
            /\ pc' = "exited" /\ UNCHANGED <<file, toks, pos, state, ret>>

Next == \/ OpenFails \/ Open \/ Finish \/ SkipStart \/ SkipKey \/ SkipToken
        \/ Section \/ NoSection \/ OuterToken \/ EntryStart \/ EntryToken
        \/ PairsDone \/ PairSkipped \/ Pair \/ PairDies

Spec == Init /\ [][Next]_vars /\ WF_vars(Next)

-----------------------------------------------------------------------------
(* Reference: the peers that a file describes, read off its structure.      *)

\* The entries of a list that are mappings.
Mappings(es) == FlattenSeq([j \in DOMAIN es |-> IF es[j] = <<>> THEN <<>> ELSE <<es[j]>>])

Symmetric(f) == FlattenSeq([i \in DOMAIN f.sections |->
    IF f.sections[i].key = "symmetric-peers" THEN Mappings(f.sections[i].entries) ELSE <<>>])

\* The value a key has in an entry.
Value(e, k) == IF \E i \in DOMAIN e : e[i][1] = k /\ e[i][2] # "empty"
                 THEN e[CHOOSE i \in DOMAIN e : e[i][1] = k][2] ELSE Unset

Described(e, n) ==
    [id |-> n, name |-> Value(e, "name"),
     direction |-> IF Value(e, "map-interface") # Unset THEN "MAP"
                   ELSE Direction(Value(e, "type"), Unset),
     threads |-> IF Value(e, "threads") = Unset THEN -1 ELSE atoi(Value(e, "threads")),
     peer_ip |-> Value(e, "peer-ip"), ifname |-> Value(e, "interface")]

\* A peer starts with its name, its last value is not left out, no key comes
\* twice, and map-interface is not taken back by a type behind it.
RegularPeer(e) ==
    /\ e[1][1] = "name" /\ e[1][2] # "empty" /\ e[Len(e)][2] # "empty"
    /\ \A k, l \in DOMAIN e : k # l => e[k][1] # e[l][1]
    /\ \A k, l \in DOMAIN e : k < l => ~(e[k][1] = "map-interface" /\ e[l][1] = "type")
    /\ \A k \in DOMAIN e : e[k][2] # Unset

\* No value is a list or a mapping.
Plain(f) == \A i \in DOMAIN f.sections : \A j \in DOMAIN f.sections[i].entries :
                \A k \in DOMAIN f.sections[i].entries[j] :
                    f.sections[i].entries[j][k][2] # "nested"

\* The layout of sample.yaml: a section of something else comes first, and other
\* lists before those of peers.
Regular(f) ==
    /\ Plain(f)
    /\ f.sections \in Seq([key : STRING, entries : Seq(Seq(STRING \X STRING))])
    /\ f.sections # <<>> /\ f.sections[1].entries # <<>>
    /\ f.sections[1].key # "symmetric-peers"
    /\ \A i, j \in DOMAIN f.sections :
          i < j /\ f.sections[i].key = "symmetric-peers" /\ f.sections[j].entries # <<>>
             => f.sections[j].key \in {"symmetric-peers", "assymetric-peers"}
    /\ \A i \in DOMAIN f.sections : \A j \in DOMAIN f.sections[i].entries :
          f.sections[i].key = "symmetric-peers" /\ f.sections[i].entries[j] # <<>>
             => RegularPeer(f.sections[i].entries[j])

-----------------------------------------------------------------------------
\* The values that the variables range over.
TypeOK ==
    /\ pos \in 0..Len(toks)+1
    /\ pc \in {"open", "outer", "skip", "entry", "pair", "done", "exited"}
    /\ sequence \in {0, SEQ_APEER, SEQ_SPEER}
    /\ peer_init \in BOOLEAN /\ peerid \in Nat \ {0} /\ peer.id \in 0..peerid-1
    /\ \A i \in DOMAIN MPL : MPL[i].id \in 1..peerid-1
    /\ ret \in {0, 1}

\* What the list of a file in the layout of sample.yaml ends up with, walked
\* from its tail as enumerate_interfaces does, is the symmetric peers of the
\* file, complete and in order, the first and the last included.
LoadsPeers == pc = "done" /\ Regular(file) =>
    Reverse(MPL) = [n \in DOMAIN Symmetric(file) |-> Described(Symmetric(file)[n], n)]

\* Every peer that was begun is on the list in the end, once, the latest first:
\* whatever the layout of the file and its tokens, none is lost when the next
\* one starts, or a section or the file ends.
AllListed == pc = "done" =>
    Len(MPL) = peerid - 1 /\ \A i \in DOMAIN MPL : MPL[i].id = peerid - i

\* A file that the scanner takes, and that has no list or mapping for a value,
\* comes to its end, whatever its layout and whichever values are left out:
\* every token moves one of the loops on, and none swallows the end.
LoadReturns == file.good = All /\ Plain(file) => <>(pc \in {"done", "exited"})

-----------------------------------------------------------------------------
(* What a comment says, and the code does not do.                           *)

\* "they should return 1 on failure,0 on success." (state.h:12): load_config
\* comes back, or the process ends; with 0 if the list has a peer for each of
\* the symmetric peers of the file and for nothing else, and with 1 if not.  So
\* for a file that the scanner rejects, for one with a list for a value, for one
\* where the peers come first and for one where the global section comes last.
FailureReturned ==
    <>(\/ pc = "exited"
       \/ /\ pc = "done"
          /\ ret = 0 <=> file.good = All /\ Len(MPL) = Len(Symmetric(file)))
=============================================================================
