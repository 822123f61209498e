-------------------------------- MODULE MCRtp --------------------------------
(* Streams and datagrams for model checking: an air unit's packetiser for  *)
(* both codecs, with every NAL and header byte a value OpenIPC encoders    *)
(* produce, and headers with everything RFC 3550 allows.                   *)
EXTENDS RtpDepacketizer, RtpHeader

(* NAL nal of codec c cut into one fragment per body byte. *)
NalHeaderLen(c) == IF c = "H264" THEN 1 ELSE 2

FragmentPayload(c, nal, k) ==
    LET h     == NalHeaderLen(c)
        m     == Len(nal) - h
        flags == (IF k = 1 THEN 128 ELSE 0) + (IF k = m THEN 64 ELSE 0)
    IN  IF c = "H264"
        THEN <<(nal[1] - (nal[1] % 32)) + 28, flags + (nal[1] % 32), nal[h + k]>>
        ELSE <<98, nal[2], flags + ((nal[1] \div 2) % 64), nal[h + k]>>

Fragments(c, nal) ==
    [k \in 1..(Len(nal) - NalHeaderLen(c)) |->
        [payload |-> FragmentPayload(c, nal, k),
         upto    |-> SubSeq(nal, 1, NalHeaderLen(c) + k)]]

Whole(p) == <<[payload |-> p, upto |-> <<>>]>>

(* IDR slice in three fragments, P slice in two. *)
Idr(c) == IF c = "H264" THEN <<101, 201, 202, 203>> ELSE <<38, 1, 201, 202, 203>>
PSlice(c) == IF c = "H264" THEN <<65, 211, 212>> ELSE <<2, 1, 211, 212>>
Sps(c) == IF c = "H264" THEN <<103, 66>> ELSE <<66, 1, 221>>
Pps(c) == IF c = "H264" THEN <<104>> ELSE <<68, 1>>

Prefixed(n) == <<0, Len(n)>> \o n

(* Packets that are not fragments: a single NAL, an aggregate, an aggregate
   cut short, a type no air unit uses, and a fragment too short to be one. *)
AggregateHeader(c) == IF c = "H264" THEN <<120>> ELSE <<96, 1>>
Others(c) ==
    { Whole(Sps(c)),
      Whole(AggregateHeader(c) \o Prefixed(Sps(c)) \o Prefixed(Pps(c))),
      Whole(AggregateHeader(c) \o Prefixed(Pps(c)) \o <<0, 9, 1>>),
      Whole(IF c = "H264" THEN <<121, 1>> ELSE <<126, 1>>),
      Whole(IF c = "H264" THEN <<124>> ELSE <<98>>) }

NalsOf(c) == {Idr(c), PSlice(c), Sps(c), Pps(c)}

StreamOf(c, a, b) ==
    [codec   |-> c,
     packets |-> a \o Fragments(c, Idr(c)) \o b \o Fragments(c, PSlice(c)),
     nals    |-> NalsOf(c)]

(* 50 streams: a fragmented IDR and a fragmented P slice with every kind of
   packet before and between them. *)
MCStreams == UNION {{StreamOf(c, a, b) : a, b \in Others(c)} : c \in Codecs}

(* H.264 streams joined while their slices are small enough for one packet:
   what arrives first is a P slice of 0x41 or 0x61, with the first bits of a
   slice header after it. *)
Slice(header) == <<header, 154, 213>>
MCSliceStreams ==
    {[StreamOf("H264", Whole(Slice(h)), b) EXCEPT !.nals = @ \cup {Slice(h)}] :
        h \in {65, 97}, b \in Others("H264")}
-----------------------------------------------------------------------------
MCParts == [csrc : {0, 1, 15}, ext : {-1, 0, 2}, pad : {0, 1, 3},
            payload : {<<>>, <<101>>, <<101, 7, 0>>}]

(* Every sent datagram cut short at every length, and every one with a
   damaged first or last byte. *)
MCDamaged ==
    LET Sent == {Encode(x) : x \in [csrc : {0, 1}, ext : {-1, 0, 1}, pad : {0, 2},
                                    payload : {<<>>, <<101, 7>>}]}
    IN  UNION {{SubSeq(d, 1, n) : n \in 0..Len(d)} : d \in Sent}
        \cup {[d EXCEPT ![1] = b] : d \in Sent, b \in {0, 64, 128, 143, 144, 160, 176, 191, 255}}
        \cup {[d EXCEPT ![Len(d)] = b] : d \in Sent, b \in {0, 1, 255}}
-----------------------------------------------------------------------------
(* Push parses the header first, by functions without state.  A behaviour
   parses datagrams before the first packet, an empty one in between, or
   pushes the packets of a stream. *)
VideoInit == Init /\ HeaderInit

ParseOne == data = <<>> /\ lastIdx = 0 /\ result = NoResult /\ HeaderNext
ParseEmpty == data # <<>> /\ ReceiveDamaged(<<>>)

VideoNext ==
    \/ data = <<>> /\ Next /\ UNCHANGED headerVars
    \/ ParseOne /\ UNCHANGED vars
    \/ ParseEmpty /\ UNCHANGED vars

VideoSpec == VideoInit /\ [][VideoNext]_<<vars, headerVars>>
==============================================================================
