---------------------------- MODULE RisLiveParser ----------------------------
(***************************************************************************)
(* parse_ris_live_message: the events one raw message of RIS Live gives    *)
(* rise to.  A text is NotJson or its outer value; a value has the members *)
(* the parser looks for, each of them NoValue if it is missing or not of   *)
(* the kind the parser takes.                                              *)
(***************************************************************************)
EXTENDS Naturals, Sequences, SequencesExt

CONSTANTS
    NotJson,   \* a text on which json::parse throws parse_error
    NoValue,
    AsnLimit   \* 2^32

OrEmpty(string) == IF string = NoValue THEN "" ELSE string

OrZero(number) == IF number = NoValue THEN 0 ELSE number

\* get<uint32_t>() of an unsigned number: the upper bits are lost.
Uint32(number) == number % AsnLimit

BuildPeerInfo(data) ==
    [host |-> OrEmpty(data.host), peer |-> OrEmpty(data.peer),
     peer_asn |-> Uint32(OrZero(data.peer_asn))]

HasOriginAsn(data) ==
    /\ data.path # NoValue
    /\ data.path # << >>
    /\ Last(data.path) # NoValue

\* The loops pass over the elements of another kind.
Readable(values) ==
    FlattenSeq([i \in DOMAIN values |->
                   IF values[i] = NoValue THEN << >> ELSE <<values[i]>>])

EventsOn(prefixes, type, origin_asn, data) ==
    [i \in DOMAIN prefixes |->
        [type |-> type, peer |-> BuildPeerInfo(data), prefix |-> prefixes[i],
         origin_asn |-> origin_asn, timestamp |-> OrZero(data.timestamp)]]

\* Prefixes of several next hops follow each other.
AnnounceEvents(data) ==
    IF HasOriginAsn(data) /\ data.announcements # NoValue
    THEN LET lists    == Readable(data.announcements)
             prefixes == FlattenSeq([i \in DOMAIN lists |-> Readable(lists[i])])
         IN  EventsOn(prefixes, "announce", Uint32(Last(data.path)), data)
    ELSE << >>

WithdrawEvents(data) ==
    IF data.withdrawals # NoValue
    THEN EventsOn(Readable(data.withdrawals), "withdraw", 0, data)
    ELSE << >>

IsUpdate(text) ==
    /\ text # NotJson
    /\ text.type = "ris_message"
    /\ text.data # NoValue
    /\ text.data.type = "UPDATE"

\* Mutant: withdrawals come first.
EventsOfWithdrawsFirst(text) ==
    IF IsUpdate(text) THEN WithdrawEvents(text.data) \o AnnounceEvents(text.data) ELSE << >>

EventsOf(text) ==
    IF IsUpdate(text) THEN AnnounceEvents(text.data) \o WithdrawEvents(text.data) ELSE << >>

=============================================================================
