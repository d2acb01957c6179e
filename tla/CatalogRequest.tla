--------------------------- MODULE CatalogRequest ---------------------------
(***************************************************************************)
(* The request URLs built by the public operations of MusicBrainzClient    *)
(* (src/src/musicbrainz/client.rs, search_... and lookup_...), checked    *)
(* against what a server reads back out of them.                           *)
(*                                                                         *)
(* A URL is a sequence of tokens: every query character, separator and    *)
(* percent sign is a token of its own; the base URL, an endpoint name, an  *)
(* MBID, a decimal number ({} of a u32) and the two hex digits of a        *)
(* percent escape are one token each.  Query text is drawn from a small    *)
(* alphabet holding one unreserved character and the characters that mean *)
(* something in a query string.                                            *)
(***************************************************************************)
EXTENDS Naturals, Sequences, SequencesExt, TLC

CONSTANTS
    Queries,      \* the query texts tried (sequences of QueryChars)
    LimitArgs,    \* the limit: Option<u32> arguments tried
    OffsetArgs,   \* the offset: Option<u32> arguments tried
    Ids,          \* MBIDs (Uuid), each rendered as one token
    NoArg         \* None

QueryChars == {"a", "&", "=", "+", "%", " "}

ASSUME CatalogAssumption ==
    /\ Queries \subseteq Seq(QueryChars)
    /\ LimitArgs \subseteq Nat \cup {NoArg}
    /\ OffsetArgs \subseteq Nat \cup {NoArg}
    /\ NoArg \notin Nat

SearchOps == {"search_recordings", "search_artists", "search_releases"}
LookupOps == {"lookup_recording", "lookup_artist", "lookup_release"}

\* The path segment each operation's format! string names.
Entity ==
    [search_recordings |-> "recording", search_artists |-> "artist",
     search_releases |-> "release", lookup_recording |-> "recording",
     lookup_artist |-> "artist", lookup_release |-> "release"]

\* The inc= expansion each lookup's format! string requests.
Inc ==
    [lookup_recording |-> <<"artists", "+", "releases">>,
     lookup_artist |-> <<"recordings", "+", "releases">>,
     lookup_release |-> <<"artists">>]

\* limit.unwrap_or(25).min(100)
EffectiveLimit(l) ==
    LET d == IF l = NoArg THEN 25 ELSE l
    IN  IF d < 100 THEN d ELSE 100

\* offset.unwrap_or(0)
EffectiveOffset(o) == IF o = NoArg THEN 0 ELSE o

\* urlencoding::encode: unreserved characters stay, every other byte
\* becomes "%" and its two upper-case hex digits.
HexDigits == ("&" :> "26") @@ ("=" :> "3D") @@ ("+" :> "2B")
               @@ ("%" :> "25") @@ (" " :> "20")
Unreserved == QueryChars \ DOMAIN HexDigits

EncodeIdentity(q) == q

Encode(q) ==
    FlattenSeq([i \in 1..Len(q) |->
                  IF q[i] \in Unreserved THEN <<q[i]>>
                                         ELSE <<"%", HexDigits[q[i]]>>])

\* name=value pairs joined by "&", as written in the format! strings.
Param(k, v) == <<k, "=">> \o v
JoinParams(ps) ==
    FlattenSeq([i \in 1..Len(ps) |-> IF i = 1 THEN ps[i]
                                              ELSE <<"&">> \o ps[i]])

\* search_recordings, search_artists, search_releases.
SearchUrl(op, q, l, o) ==
    <<"BASE", "/", Entity[op], "?">>
      \o JoinParams(<<Param("query", Encode(q)),
                      Param("limit", <<ToString(EffectiveLimit(l))>>),
                      Param("offset", <<ToString(EffectiveOffset(o))>>),
                      Param("fmt", <<"json">>)>>)

\* lookup_recording, lookup_artist, lookup_release.
LookupUrl(op, id) ==
    <<"BASE", "/", Entity[op], "/", id, "?">>
      \o JoinParams(<<Param("inc", Inc[op]), Param("fmt", <<"json">>)>>)

Calls ==
    [op : SearchOps, q : Queries, l : LimitArgs, o : OffsetArgs]
      \cup [op : LookupOps, id : Ids]

BuildUrl(c) ==
    IF c.op \in SearchOps THEN SearchUrl(c.op, c.q, c.l, c.o)
                          ELSE LookupUrl(c.op, c.id)

VARIABLES call, url
vars == <<call, url>>

Init == call \in Calls /\ url = <<>>

\* One public operation builds its URL and hands it to get().
Build == url = <<>> /\ url' = BuildUrl(call) /\ UNCHANGED call

Spec == Init /\ [][Build]_vars

-----------------------------------------------------------------------------
(***************************************************************************)
(* The server side, from the query-string format of spec section 6: split  *)
(* the path at "/", the query at "&", each pair at its first "=", and      *)
(* decode "+" as a space and "%" with two hex digits as that byte.         *)
(***************************************************************************)
RECURSIVE SplitOn(_, _)
SplitOn(s, sep) ==
    LET k == SelectInSeq(s, LAMBDA x : x = sep)
    IN  IF k = 0 THEN <<s>>
        ELSE <<SubSeq(s, 1, k - 1)>> \o SplitOn(SubSeq(s, k + 1, Len(s)), sep)

HexByte == [h \in {HexDigits[c] : c \in DOMAIN HexDigits} |->
              CHOOSE c \in DOMAIN HexDigits : HexDigits[c] = h]

RECURSIVE Decode(_)
Decode(s) ==
    IF s = <<>> THEN <<>>
    ELSE IF s[1] = "%" /\ Len(s) >= 2 /\ s[2] \in DOMAIN HexByte
         THEN <<HexByte[s[2]]>> \o Decode(SubSeq(s, 3, Len(s)))
    ELSE IF s[1] = "+" THEN <<" ">> \o Decode(Tail(s))
    ELSE <<s[1]>> \o Decode(Tail(s))

ParsePair(p) ==
    LET k == SelectInSeq(p, LAMBDA x : x = "=")
    IN  IF k = 0 THEN [key |-> p, value |-> <<>>]
        ELSE [key |-> SubSeq(p, 1, k - 1),
              value |-> Decode(SubSeq(p, k + 1, Len(p)))]

ParseUrl(u) ==
    LET k == SelectInSeq(u, LAMBDA x : x = "?")
        pairs == SplitOn(SubSeq(u, k + 1, Len(u)), "&")
    IN  [path |-> SplitOn(SubSeq(u, 1, k - 1), "/"),
         params |-> [i \in 1..Len(pairs) |-> ParsePair(pairs[i])]]

\* What spec section 4.5 and 6 say each operation asks the server for.
Intended(c) ==
    IF c.op \in SearchOps
    THEN [path |-> <<<<"BASE">>, <<Entity[c.op]>>>>,
          params |->
            <<[key |-> <<"query">>, value |-> c.q],
              [key |-> <<"limit">>,
               value |-> <<ToString(IF c.l = NoArg THEN 25
                                    ELSE IF c.l > 100 THEN 100 ELSE c.l)>>],
              [key |-> <<"offset">>,
               value |-> <<ToString(IF c.o = NoArg THEN 0 ELSE c.o)>>],
              [key |-> <<"fmt">>, value |-> <<"json">>]>>]
    ELSE [path |-> <<<<"BASE">>, <<Entity[c.op]>>, <<c.id>>>>,
          params |->
            <<[key |-> <<"inc">>,
               value |-> Decode(Inc[c.op])],
              [key |-> <<"fmt">>, value |-> <<"json">>]>>]

(***************************************************************************)
(* RequestFaithful: the URL each public operation builds reads back, on    *)
(* the server, as exactly the endpoint and parameters the operation was    *)
(* asked for: the query text survives percent-encoding whatever characters *)
(* it holds (no "&", "=" or "+" in it can add, split or alter a           *)
(* parameter), limit is defaulted to 25 and clamped to 100, offset         *)
(* defaults to 0.                                                          *)
(***************************************************************************)
RequestFaithful == url # <<>> => ParseUrl(url) = Intended(call)

=============================================================================
