------------------------------ MODULE MCConfig ------------------------------
(* Files in the layout of sample.yaml, and some that depart from it.        *)
EXTENDS Config

Ingress == <<<<"name", "in">>, <<"type", "ingress">>, <<"interface", "eth1">>, <<"threads", "1">>>>
Egress == <<<<"name", "out">>, <<"peer-ip", "10.0.0.2">>, <<"threads", "2">>, <<"type", "egress">>>>
Mapped == <<<<"name", "map">>, <<"map-interface", "eth2">>>>
Again == <<<<"name", "in">>, <<"type", "egress">>, <<"note", "x">>>>
Unknown == <<<<"name", "odd">>, <<"peer-ip", "nowhere">>>>

Sec(k, es) == [key |-> k, entries |-> es]
Global == Sec("global", <<<<<<"name", "testing123">>>>, <<<<"threads", "4">>>>>>)
Version == Sec("version", <<>>)
Asymmetric == Sec("assymetric-peers", <<<<<<"name", "fargo">>, <<"interface", "ppp0">>>>>>)

Holed == <<<<"name", "holed">>, <<"interface", "empty">>, <<"type", "ingress">>>>

Entries == {Ingress, Egress, Mapped, Again, Unknown, Holed, <<>>}
EntryLists == UNION {[1..n -> Entries] : n \in 1..3}

File(ss, n) == [sections |-> ss, good |-> n]

SampleFiles ==
    {File(<<Global, Sec("symmetric-peers", es)>>, All) : es \in EntryLists}
    \cup {File(<<Global, Version, Asymmetric, Sec("symmetric-peers", <<e>>)>>, All) : e \in Entries}
    \cup {File(<<Global, Sec("symmetric-peers", <<e>>), Asymmetric,
                 Sec("symmetric-peers", <<f>>)>>, All) : e \in Entries, f \in Entries}

RejectedFiles == {File(<<Global, Sec("symmetric-peers", <<Ingress>>)>>, n) : n \in 3..40}

\* The last value of a peer, or its name, is left out; it does not begin with its
\* name; a key comes twice; the type takes the map-interface back.
Odd == {<<<<"name", "cut">>, <<"interface", "empty">>>>,
        <<<<"name", "empty">>, <<"type", "ingress">>>>,
        <<<<"type", "ingress">>, <<"name", "late">>>>,
        <<<<"name", "twice">>, <<"interface", "eth1">>, <<"interface", "eth2">>>>,
        <<<<"name", "back">>, <<"map-interface", "eth2">>, <<"type", "egress">>>>}

PeersFirst == {File(<<Sec("symmetric-peers", <<Egress, Ingress>>), Global>>, All)}
GlobalLast == {File(<<Asymmetric, Sec("symmetric-peers", <<Ingress>>), Global>>, All)}
OddFiles == {File(<<Global, Sec("symmetric-peers", <<e, o, f>>)>>, All) : o \in Odd, e, f \in Entries}
            \cup {File(<<Sec("symmetric-peers", <<o>>), Version, Sec("symmetric-peers", <<p, e>>),
                         Asymmetric>>, All) : o, p \in Odd, e \in Entries}
            \cup PeersFirst \cup GlobalLast

NestedValue == {File(<<Global, Sec("symmetric-peers",
                       <<<<<<"name", "in">>, <<"interface", "nested">>>>>>)>>, All)}

Departures == RejectedFiles \cup NestedValue \cup PeersFirst \cup GlobalLast

AnyFile == SampleFiles \cup RejectedFiles \cup OddFiles
ASSUME AllRegular == \A f \in SampleFiles \cup RejectedFiles : Regular(f)
ASSUME OddPlain == \A f \in OddFiles : Plain(f) /\ ~Regular(f)
Nowhere == {"nowhere"}
=============================================================================
