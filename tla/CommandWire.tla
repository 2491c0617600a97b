----------------------------- MODULE CommandWire -----------------------------
(***************************************************************************)
(* CommandDecoder: what a packet means and how a command is written.       *)
(*                                                                         *)
(* A packet is an address, a string of type tags and one value per tag;    *)
(* `whole' says that the bytes parse at all.  The number in an address of  *)
(* the form /verb/{n}/sub is taken out of it: `n' is -1 when there is none *)
(* that sscanf can read, or a negative one.  A text is its name, its       *)
(* length and the place of its first unprintable character (0: none).      *)
(*                                                                         *)
(* Floats are whole numbers of a small unit, so that the conversions have  *)
(* something to convert: radians count 1/RadUnit of a wire degree, metres  *)
(* are MAX_DIST times a normalised distance.  A command is a tag, its two  *)
(* sequence numbers and the fields of its payload in the order of the      *)
(* struct.                                                                 *)
(***************************************************************************)
EXTENDS Integers, Sequences, FiniteSets

MaxArgs == 8        \* values kept of each type
MaxDist == 20       \* ADM_OSC_MAX_DIST
RadUnit == 3        \* the unit of radians, see above

NoText == [text |-> "", len |-> 0, bad |-> 0]

Nth(s, k, default) == IF k \in DOMAIN s THEN s[k] ELSE default

Bit(b) == IF b THEN 1 ELSE 0

Least(a, b) == IF a < b THEN a ELSE b

-----------------------------------------------------------------------------
(* Parsing.                                                                *)

\* The values whose type tag is among kinds, the first eight of them.
Taken(pkt, kinds) ==
    LET at == {k \in DOMAIN pkt.tags : pkt.tags[k] \in kinds}
        Place(n) == CHOOSE k \in at : Cardinality({j \in at : j <= k}) = n
    IN  [n \in 1 .. Least(Cardinality(at), MaxArgs) |-> pkt.vals[Place(n)]]

Parses(pkt) ==
    pkt.whole /\ \A k \in DOMAIN pkt.tags : pkt.tags[k] \in {"i", "f", "h", "d", "t", "s"}

OscArgs(pkt) ==
    [tags |-> pkt.tags, ints |-> Taken(pkt, {"i"}), floats |-> Taken(pkt, {"f"}),
     u64s |-> Taken(pkt, {"h", "t"}), doubles |-> Taken(pkt, {"d"}),
     strings |-> Taken(pkt, {"s"})]

\* Mutant of Prefix: only in front of other arguments.
PrefixOfArguments(a) ==
    IF Len(a.tags) > 2 /\ a.tags[1] = "i" /\ a.tags[2] = "i" THEN 2 ELSE 0

\* Two leading ints are the sequence number and the id, whatever the sender
\* meant by them.
Prefix(a) == IF Nth(a.tags, 1, "") = "i" /\ Nth(a.tags, 2, "") = "i" THEN 2 ELSE 0

GetInt(a, k) == Nth(a.ints, k + Prefix(a), 0)
GetFloat(a, k) == Nth(a.floats, k, 0)
GetString(a, k) == Nth(a.strings, k, NoText)

AlgoFromInt(v) == CASE v = 1 -> "WFS" [] v = 2 -> "DBAP" [] v = 3 -> "Ambisonic"
                    [] OTHER -> "VBAP"

AlgoNumber(algo) == CHOOSE v \in 0 .. 3 : AlgoFromInt(v) = algo

\* A text copied into a buffer of n characters and a null.
Cut(s, n) == [s EXCEPT !.len = Least(s.len, n)]

CopySceneName(s) == Cut(s, 63)

CopySubscriberTag(s) == IF s.bad \in 1 .. 63 THEN NoText ELSE Cut(s, 63)

-----------------------------------------------------------------------------
(* buildCommand: the tag and the payload an address and its arguments      *)
(* stand for.                                                              *)

Unknown == [tag |-> "Unknown", p |-> <<>>]

Means(tag, p) == [tag |-> tag, p |-> p]

BuildObject(verb, a) ==
    CASE verb = "/obj/move" ->
            Means("ObjMove", <<GetInt(a, 1), GetFloat(a, 1), GetFloat(a, 2), GetFloat(a, 3)>>)
      [] verb = "/obj/gain" -> Means("ObjGain", <<GetInt(a, 1), GetFloat(a, 1)>>)
      [] verb = "/obj/active" -> Means("ObjActive", <<GetInt(a, 1), GetInt(a, 2) # 0>>)
      [] verb = "/obj/algo" -> Means("ObjAlgo", <<GetInt(a, 1), AlgoFromInt(GetInt(a, 2))>>)
      [] verb = "/obj/dsp" ->
            IF GetInt(a, 2) \in 0 .. 7
            THEN Means("ObjDsp", <<GetInt(a, 1), GetInt(a, 2), GetFloat(a, 1)>>)
            ELSE Unknown

BuildHandshake(a) ==
    Means("SysHandshake",
          <<GetInt(a, 1) % 65536,
            IF GetInt(a, 2) > 0 /\ GetInt(a, 2) <= 65535 THEN GetInt(a, 2) ELSE 0,
            CopySubscriberTag(GetString(a, 1))>>)

BuildSystem(verb, a) ==
    CASE verb = "/sys/handshake" -> BuildHandshake(a)
      [] verb = "/sys/algo_swap" -> Means("SysAlgoSwap", <<AlgoFromInt(GetInt(a, 1))>>)
      [] verb = "/sys/reset" -> Means("SysReset", <<>>)
      [] verb = "/sys/ambi_order" ->
            Means("SysAmbiOrder", <<IF GetInt(a, 1) < 1 THEN 1 ELSE Least(GetInt(a, 1), 3)>>)
      [] verb = "/sys/ambi_decoder_type" ->
            Means("SysAmbiDecoderType", <<IF GetInt(a, 1) \in 0 .. 4 THEN GetInt(a, 1) ELSE 0>>)
      [] verb = "/sys/ltc_chase" -> Means("SysLtcChase", <<GetInt(a, 1) # 0>>)
      [] verb = "/reverb/select" ->
            IF a.strings # <<>>
            THEN Means("ReverbSelect", <<IF a.strings[1].text = "ir" THEN 1 ELSE 0>>)
            ELSE Unknown

BuildBinaural(verb, a) ==
    CASE verb = "/sys/load_layout" ->
            IF a.strings # <<>> THEN Means("SysLoadLayout", <<a.strings[1]>>) ELSE Unknown
      [] verb = "/sys/binaural_sofa" ->
            IF a.strings # <<>> THEN Means("SysBinauralSofa", <<a.strings[1]>>) ELSE Unknown
      [] verb = "/sys/binaural_sofa_select" ->
            IF GetString(a, 1).len > 0
            THEN Means("SysBinauralSofaSelect", <<a.strings[1]>>) ELSE Unknown
      [] verb = "/sys/binaural_enable" -> Means("SysBinauralEnable", <<GetInt(a, 1) # 0>>)
      [] verb = "/sys/binaural_mode" ->
            Means("SysBinauralMode", <<IF GetInt(a, 1) = 1 THEN 1 ELSE 0>>)
      [] verb = "/sys/binaural_reset_demote" ->
            Means("SysBinauralResetDemote", <<GetInt(a, 1) # 0>>)

\* A ping in seconds comes from the player, one in milliseconds from the
\* engine's own publisher.
BuildHeartbeat(verb, a) ==
    CASE verb = "/hb/ping" ->
            IF a.u64s # <<>> THEN Means("HbPing", <<a.u64s[1], FALSE>>)
            ELSE IF a.doubles # <<>>
            THEN Means("HbPing", <<IF a.doubles[1] > 0 THEN a.doubles[1] * 1000 ELSE 0, TRUE>>)
            ELSE Means("HbPing", <<0, FALSE>>)
      [] verb = "/hb/pong" -> Means("HbPong", <<Nth(a.u64s, 1, 0)>>)

BuildScene(verb, a) ==
    LET first == CopySceneName(GetString(a, 1))
        second == CopySceneName(GetString(a, 2))
    IN  CASE verb = "/scene/save" -> Means("SceneSave", <<first>>)
          [] verb = "/scene/load" -> Means("SceneLoad", <<first>>)
          [] verb = "/scene/list" -> Means("SceneList", <<>>)
          [] verb = "/scene/rename" -> Means("SceneRename", <<first, second>>)
          [] verb = "/scene/duplicate" -> Means("SceneDuplicate", <<first, second>>)
          [] verb = "/scene/delete" -> Means("SceneDelete", <<first>>)
          [] verb = "/scene/meta" -> Means("SceneMeta", <<first, GetString(a, 2)>>)

\* Pause is stop: the engine's gate has two states.
BuildTransport(verb, a) ==
    CASE verb = "/cue/go" -> Means("CueGo", <<GetInt(a, 1)>>)
      [] verb = "/cue/next" -> Means("CueNext", <<>>)
      [] verb = "/cue/prev" -> Means("CuePrev", <<>>)
      [] verb = "/cue/stop" -> Means("CueStop", <<>>)
      [] verb = "/transport/play" -> Means("TransportPlay", <<Nth(a.doubles, 1, 0)>>)
      [] verb \in {"/transport/stop", "/transport/pause"} -> Means("TransportStop", <<>>)

BuildChannel(verb, n, a) ==
    CASE n < 0 -> Unknown
      [] n >= 0 /\ verb = "/noise/N/type" ->
            IF a.strings # <<>>
            THEN Means("NoiseType", <<n, a.strings[1].text = "pink">>) ELSE Unknown
      [] n >= 0 /\ verb = "/noise/N/gain" -> Means("NoiseGain", <<n, GetFloat(a, 1)>>)
      [] n >= 0 /\ verb = "/output/N/gain" -> Means("OutputGain", <<n, GetFloat(a, 1)>>)
      [] n >= 0 /\ verb = "/output/N/limit" -> Means("OutputLimit", <<n, GetFloat(a, 1)>>)

\* decodeAdmAddress: ints are not shifted, and a message of one coordinate
\* sets the other two to their defaults.
DecodeAdm(verb, n, a) ==
    LET rad(k) == GetFloat(a, k) * RadUnit
        metres(k) == GetFloat(a, k) * MaxDist
        flag == Nth(a.ints, 1, 0) # 0
    IN  CASE n < 0 -> Unknown
          [] n >= 0 /\ verb = "/adm/obj/N/azim" -> Means("ObjMove", <<n, rad(1), 0, 1>>)
          [] n >= 0 /\ verb = "/adm/obj/N/elev" -> Means("ObjMove", <<n, 0, rad(1), 1>>)
          [] n >= 0 /\ verb = "/adm/obj/N/dist" -> Means("ObjMove", <<n, 0, 0, metres(1)>>)
          [] n >= 0 /\ verb = "/adm/obj/N/aed" ->
                Means("ObjMove", <<n, rad(1), rad(2), metres(3)>>)
          [] n >= 0 /\ verb = "/adm/obj/N/gain" -> Means("ObjGain", <<n, GetFloat(a, 1)>>)
          [] n >= 0 /\ verb = "/adm/obj/N/mute" -> Means("ObjMute", <<n, flag>>)
          [] n >= 0 /\ verb = "/adm/obj/N/xyz" ->
                Means("ObjXYZ", <<n, GetFloat(a, 1), GetFloat(a, 2), GetFloat(a, 3)>>)
          [] n >= 0 /\ verb = "/adm/obj/N/active" -> Means("ObjActiveAdm", <<n, flag>>)
          [] n >= 0 /\ verb = "/adm/obj/N/width" -> Means("ObjWidth", <<n, GetFloat(a, 1)>>)
          [] n >= 0 /\ verb = "/adm/obj/N/name" ->
                Means("ObjName", <<n, Cut(GetString(a, 1), 31)>>)

ObjectVerbs == {"/obj/move", "/obj/gain", "/obj/active", "/obj/algo", "/obj/dsp"}
SystemVerbs == {"/sys/handshake", "/sys/algo_swap", "/sys/reset", "/sys/ambi_order",
                "/sys/ambi_decoder_type", "/sys/ltc_chase", "/reverb/select"}
BinauralVerbs == {"/sys/load_layout", "/sys/binaural_sofa", "/sys/binaural_sofa_select",
                  "/sys/binaural_enable", "/sys/binaural_mode", "/sys/binaural_reset_demote"}
HeartbeatVerbs == {"/hb/ping", "/hb/pong"}
SceneVerbs == {"/scene/save", "/scene/load", "/scene/list", "/scene/rename",
               "/scene/duplicate", "/scene/delete", "/scene/meta"}
TransportVerbs == {"/cue/go", "/cue/next", "/cue/prev", "/cue/stop",
                   "/transport/play", "/transport/stop", "/transport/pause"}
ChannelVerbs == {"/noise/N/type", "/noise/N/gain", "/output/N/gain", "/output/N/limit"}
AdmVerbs == {"/adm/obj/N/azim", "/adm/obj/N/elev", "/adm/obj/N/dist", "/adm/obj/N/aed",
             "/adm/obj/N/gain", "/adm/obj/N/mute", "/adm/obj/N/xyz", "/adm/obj/N/active",
             "/adm/obj/N/width", "/adm/obj/N/name"}

BuildCommand(pkt, a) ==
    CASE pkt.verb \in ObjectVerbs -> BuildObject(pkt.verb, a)
      [] pkt.verb \in SystemVerbs -> BuildSystem(pkt.verb, a)
      [] pkt.verb \in BinauralVerbs -> BuildBinaural(pkt.verb, a)
      [] pkt.verb \in HeartbeatVerbs -> BuildHeartbeat(pkt.verb, a)
      [] pkt.verb \in SceneVerbs -> BuildScene(pkt.verb, a)
      [] pkt.verb \in TransportVerbs -> BuildTransport(pkt.verb, a)
      [] pkt.verb \in ChannelVerbs -> BuildChannel(pkt.verb, pkt.n, a)
      [] pkt.verb \in AdmVerbs -> DecodeAdm(pkt.verb, pkt.n, a)
      [] OTHER -> Unknown

\* decode.  Commands of the ADM dialect carry no sequence numbers.
Decode(pkt) ==
    LET a == OscArgs(pkt)
        numbered == Prefix(a) = 2 /\ pkt.verb \notin AdmVerbs
        seq == IF numbered THEN a.ints[1] ELSE 0
        id == IF numbered THEN a.ints[2] ELSE 0
        m == IF Parses(pkt) THEN BuildCommand(pkt, a) ELSE Unknown
    IN  [tag |-> m.tag, seq |-> seq, id |-> id, p |-> m.p]

-----------------------------------------------------------------------------
(* encode: the packet of a command, in one of two dialects.                *)

IntArg(v) == <<"i", v>>
FloatArg(v) == <<"f", v>>
TimeArg(v) == <<"t", v>>
TextArg(s) == <<"s", s>>

Word(s) == [text |-> s, len |-> Len(s), bad |-> 0]

\* Address and arguments, padded: such a packet always parses.
Packet(verb, n, args) ==
    [verb |-> verb, n |-> n, whole |-> TRUE,
     tags |-> [k \in DOMAIN args |-> args[k][1]], vals |-> [k \in DOMAIN args |-> args[k][2]]]

NotEncodable == [verb |-> "none"]

\* The AdmV1 dialect: object commands only, no sequence numbers.
AdmTags == {"ObjMove", "ObjGain", "ObjMute", "ObjXYZ", "ObjActiveAdm", "ObjWidth", "ObjName"}

EncodeAdm(c) ==
    LET to(verb, args) == Packet(verb, c.p[1], args)
    IN  CASE c.tag = "ObjMove" ->
                to("/adm/obj/N/aed", <<FloatArg(c.p[2] \div RadUnit), FloatArg(c.p[3] \div RadUnit),
                            FloatArg(c.p[4] \div MaxDist)>>)
          [] c.tag = "ObjGain" -> to("/adm/obj/N/gain", <<FloatArg(c.p[2])>>)
          [] c.tag = "ObjMute" -> to("/adm/obj/N/mute", <<IntArg(Bit(c.p[2]))>>)
          [] c.tag = "ObjXYZ" -> to("/adm/obj/N/xyz", <<FloatArg(c.p[2]), FloatArg(c.p[3]), FloatArg(c.p[4])>>)
          [] c.tag = "ObjActiveAdm" -> to("/adm/obj/N/active", <<IntArg(Bit(c.p[2]))>>)
          [] c.tag = "ObjWidth" -> to("/adm/obj/N/width", <<FloatArg(c.p[2])>>)
          [] c.tag = "ObjName" -> to("/adm/obj/N/name", <<TextArg(c.p[2])>>)

\* The legacy dialect: every packet begins with the two sequence numbers.
Prefixed(c, verb, n, args) == Packet(verb, n, <<IntArg(c.seq), IntArg(c.id)>> \o args)

EncodeObject(c) ==
    CASE c.tag = "ObjMove" ->
            Prefixed(c, "/obj/move", -1,
                     <<IntArg(c.p[1]), FloatArg(c.p[2]), FloatArg(c.p[3]), FloatArg(c.p[4])>>)
      [] c.tag = "ObjGain" -> Prefixed(c, "/obj/gain", -1, <<IntArg(c.p[1]), FloatArg(c.p[2])>>)
      [] c.tag = "ObjActive" ->
            Prefixed(c, "/obj/active", -1, <<IntArg(c.p[1]), IntArg(Bit(c.p[2]))>>)
      [] c.tag = "ObjAlgo" ->
            Prefixed(c, "/obj/algo", -1, <<IntArg(c.p[1]), IntArg(AlgoNumber(c.p[2]))>>)
      [] c.tag = "ObjDsp" ->
            Prefixed(c, "/obj/dsp", -1, <<IntArg(c.p[1]), IntArg(c.p[2]), FloatArg(c.p[3])>>)

\* The handshake's reply port is written only if there is one; the tag of a
\* subscriber never is.
EncodeSystem(c) ==
    CASE c.tag = "SysHandshake" ->
            Prefixed(c, "/sys/handshake", -1,
                     <<IntArg(c.p[1])>> \o IF c.p[2] # 0 THEN <<IntArg(c.p[2])>> ELSE <<>>)
      [] c.tag = "SysAlgoSwap" -> Prefixed(c, "/sys/algo_swap", -1, <<IntArg(AlgoNumber(c.p[1]))>>)
      [] c.tag = "SysReset" -> Prefixed(c, "/sys/reset", -1, <<>>)
      [] c.tag = "SysAmbiOrder" -> Prefixed(c, "/sys/ambi_order", -1, <<IntArg(c.p[1])>>)
      [] c.tag = "SysAmbiDecoderType" ->
            Prefixed(c, "/sys/ambi_decoder_type", -1, <<IntArg(c.p[1])>>)
      [] c.tag = "SysLtcChase" -> Prefixed(c, "/sys/ltc_chase", -1, <<IntArg(Bit(c.p[1]))>>)
      [] c.tag = "ReverbSelect" ->
            Prefixed(c, "/reverb/select", -1, <<TextArg(Word(IF c.p[1] = 1 THEN "ir" ELSE "fdn"))>>)

EncodeBinaural(c) ==
    CASE c.tag = "SysLoadLayout" -> Prefixed(c, "/sys/load_layout", -1, <<TextArg(c.p[1])>>)
      [] c.tag = "SysBinauralSofa" -> Prefixed(c, "/sys/binaural_sofa", -1, <<TextArg(c.p[1])>>)
      [] c.tag = "SysBinauralSofaSelect" ->
            Prefixed(c, "/sys/binaural_sofa_select", -1, <<TextArg(c.p[1])>>)
      [] c.tag = "SysBinauralEnable" ->
            Prefixed(c, "/sys/binaural_enable", -1, <<IntArg(Bit(c.p[1]))>>)
      [] c.tag = "SysBinauralMode" -> Prefixed(c, "/sys/binaural_mode", -1, <<IntArg(c.p[1])>>)

EncodeHeartbeat(c) ==
    CASE c.tag = "HbPing" -> Prefixed(c, "/hb/ping", -1, <<TimeArg(c.p[1])>>)
      [] c.tag = "HbPong" -> Prefixed(c, "/hb/pong", -1, <<TimeArg(c.p[1])>>)

EncodeScene(c) ==
    LET texts == [k \in DOMAIN c.p |-> TextArg(c.p[k])]
        verb == CASE c.tag = "SceneSave" -> "/scene/save"
                  [] c.tag = "SceneLoad" -> "/scene/load"
                  [] c.tag = "SceneList" -> "/scene/list"
                  [] c.tag = "SceneRename" -> "/scene/rename"
                  [] c.tag = "SceneDuplicate" -> "/scene/duplicate"
                  [] c.tag = "SceneDelete" -> "/scene/delete"
                  [] c.tag = "SceneMeta" -> "/scene/meta"
    IN  Prefixed(c, verb, -1, texts)

\* The start time of a play is not written.
EncodeTransport(c) ==
    CASE c.tag = "CueGo" -> Prefixed(c, "/cue/go", -1, <<IntArg(c.p[1])>>)
      [] c.tag = "CueNext" -> Prefixed(c, "/cue/next", -1, <<>>)
      [] c.tag = "CuePrev" -> Prefixed(c, "/cue/prev", -1, <<>>)
      [] c.tag = "CueStop" -> Prefixed(c, "/cue/stop", -1, <<>>)
      [] c.tag = "TransportPlay" -> Prefixed(c, "/transport/play", -1, <<>>)
      [] c.tag = "TransportStop" -> Prefixed(c, "/transport/stop", -1, <<>>)

EncodeChannel(c) ==
    CASE c.tag = "NoiseType" ->
            Prefixed(c, "/noise/N/type", c.p[1],
                     <<TextArg(Word(IF c.p[2] THEN "pink" ELSE "white"))>>)
      [] c.tag = "NoiseGain" -> Prefixed(c, "/noise/N/gain", c.p[1], <<FloatArg(c.p[2])>>)
      [] c.tag = "OutputGain" -> Prefixed(c, "/output/N/gain", c.p[1], <<FloatArg(c.p[2])>>)
      [] c.tag = "OutputLimit" -> Prefixed(c, "/output/N/limit", c.p[1], <<FloatArg(c.p[2])>>)

ObjectTags == {"ObjMove", "ObjGain", "ObjActive", "ObjAlgo", "ObjDsp"}
SystemTags == {"SysHandshake", "SysAlgoSwap", "SysReset", "SysAmbiOrder", "SysAmbiDecoderType",
               "SysLtcChase", "ReverbSelect"}
BinauralTags == {"SysLoadLayout", "SysBinauralSofa", "SysBinauralSofaSelect",
                 "SysBinauralEnable", "SysBinauralMode"}
HeartbeatTags == {"HbPing", "HbPong"}
SceneTags == {"SceneSave", "SceneLoad", "SceneList", "SceneRename", "SceneDuplicate",
              "SceneDelete", "SceneMeta"}
TransportTags == {"CueGo", "CueNext", "CuePrev", "CueStop", "TransportPlay", "TransportStop"}
ChannelTags == {"NoiseType", "NoiseGain", "OutputGain", "OutputLimit"}

Encode(c, dialect) ==
    CASE dialect = "AdmV1" -> IF c.tag \in AdmTags THEN EncodeAdm(c) ELSE NotEncodable
      [] dialect = "Legacy" ->
            CASE c.tag \in ObjectTags -> EncodeObject(c)
              [] c.tag \in SystemTags -> EncodeSystem(c)
              [] c.tag \in BinauralTags -> EncodeBinaural(c)
              [] c.tag \in HeartbeatTags -> EncodeHeartbeat(c)
              [] c.tag \in SceneTags -> EncodeScene(c)
              [] c.tag \in TransportTags -> EncodeTransport(c)
              [] c.tag \in ChannelTags -> EncodeChannel(c)
              [] OTHER -> NotEncodable

\* dispatch: what the sink is given for a command of the program itself;
\* nothing (Unknown) if the packet does not decode.
Dispatched(c, dialect) ==
    LET pkt == Encode(c, dialect)
    IN  IF pkt = NotEncodable THEN c ELSE Decode(pkt)

-----------------------------------------------------------------------------
(* The commands a program may hand over, over a few values of each type.   *)

Ids == {0, 63}
Numbers == {-60, 0, 120}
Texts == {NoText, [text |-> "a", len |-> 1, bad |-> 0], [text |-> "name", len |-> 63, bad |-> 0]}
Labels == {NoText, [text |-> "label", len |-> 31, bad |-> 0]}
Paths == Texts \cup {[text |-> "path", len |-> 200, bad |-> 3]}
Times == {0, 5000}

One(S) == {<<x>> : x \in S}

OfTag(tag, payloads) == {[tag |-> tag, seq |-> 5, id |-> 6, p |-> p] : p \in payloads}

ObjectCommands ==
    UNION {OfTag("ObjMove", Ids \X Numbers \X Numbers \X Numbers),
           OfTag("ObjGain", Ids \X Numbers), OfTag("ObjActive", Ids \X BOOLEAN),
           OfTag("ObjAlgo", Ids \X {"VBAP", "WFS", "DBAP", "Ambisonic"}),
           OfTag("ObjDsp", Ids \X (0 .. 7) \X Numbers),
           OfTag("ObjMute", Ids \X BOOLEAN), OfTag("ObjActiveAdm", Ids \X BOOLEAN),
           OfTag("ObjXYZ", Ids \X Numbers \X Numbers \X Numbers),
           OfTag("ObjWidth", Ids \X Numbers), OfTag("ObjName", Ids \X Labels)}

SystemCommands ==
    UNION {OfTag("SysHandshake", {0, 1, 65535} \X {0, 1, 65535} \X Texts),
           OfTag("SysAlgoSwap", One({"VBAP", "WFS", "DBAP", "Ambisonic"})),
           OfTag("SysReset", {<<>>}), OfTag("SysAmbiOrder", One(1 .. 3)),
           OfTag("SysAmbiDecoderType", One(0 .. 4)), OfTag("SysLtcChase", One(BOOLEAN)),
           OfTag("ReverbSelect", One({0, 1})),
           OfTag("SysLoadLayout", One(Paths)), OfTag("SysBinauralSofa", One(Paths)),
           OfTag("SysBinauralSofaSelect", One(Paths \ {NoText})),
           OfTag("SysBinauralEnable", One(BOOLEAN)), OfTag("SysBinauralMode", One({0, 1})),
           OfTag("SysBinauralResetDemote", One(BOOLEAN))}

ShowCommands ==
    UNION {OfTag("HbPing", Times \X BOOLEAN), OfTag("HbPong", One(Times)),
           UNION {OfTag(tag, One(Texts)) : tag \in {"SceneSave", "SceneLoad", "SceneDelete"}},
           UNION {OfTag(tag, Texts \X Texts) : tag \in {"SceneRename", "SceneDuplicate"}},
           OfTag("SceneMeta", Texts \X Paths), OfTag("CueGo", One({-1, 0, 7})),
           UNION {OfTag(tag, {<<>>}) : tag \in
                     {"SceneList", "CueNext", "CuePrev", "CueStop", "TransportStop"}},
           OfTag("TransportPlay", One(Times)),
           OfTag("NoiseType", Ids \X BOOLEAN),
           UNION {OfTag(tag, Ids \X Numbers) : tag \in {"NoiseGain", "OutputGain", "OutputLimit"}}}

AllCommands == ObjectCommands \cup SystemCommands \cup ShowCommands

\* What a dialect has words for: AdmV1 drops the sequence numbers; the
\* legacy dialect drops a subscriber's tag, the start of a play and the
\* origin of a ping, and knows neither the ADM commands nor the reset of a
\* demotion.
LegacyLacks == {"ObjMute", "ObjXYZ", "ObjActiveAdm", "ObjWidth", "ObjName",
                "SysBinauralResetDemote"}

HasWord(c, dialect) == IF dialect = "AdmV1" THEN c.tag \in AdmTags ELSE c.tag \notin LegacyLacks

Carried(c, dialect) ==
    CASE ~HasWord(c, dialect) -> c
      [] HasWord(c, dialect) /\ dialect = "AdmV1" -> [c EXCEPT !.seq = 0, !.id = 0]
      [] HasWord(c, dialect) /\ dialect = "Legacy" ->
            CASE c.tag = "SysHandshake" -> [c EXCEPT !.p[3] = NoText]
              [] c.tag = "TransportPlay" -> [c EXCEPT !.p[1] = 0]
              [] c.tag = "HbPing" -> [c EXCEPT !.p[2] = FALSE]
              [] OTHER -> c

\* Being written and read back changes no more than that.
EveryCommandCarried ==
    \A dialect \in {"Legacy", "AdmV1"} : \A c \in AllCommands :
        Dispatched(c, dialect) = Carried(c, dialect)

=============================================================================
