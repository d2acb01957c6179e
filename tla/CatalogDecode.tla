--------------------------- MODULE CatalogDecode ---------------------------
(***************************************************************************)
(* Decoding a 2xx body into a catalog entity (src/src/musicbrainz/models.rs *)
(* with serde's derived Deserialize, called by response.json::<T>() in     *)
(* MusicBrainzClient::get, lines 98-101): a body that does not decode is   *)
(* ParseError.  Each struct is its schema: for every Rust field, the JSON  *)
(* key it is read from (the field name, or its serde rename), its type and *)
(* whether it carries #[serde(default)].  JSON values are tagged records,  *)
(* so that an empty object and an empty array stay apart; strings, numbers *)
(* and identifiers are a few representative tokens.                       *)
(***************************************************************************)
EXTENDS Naturals, Sequences, TLC

\* A JSON value as the server sends it.
JNull == [t |-> "null", v |-> "null"]
JStr(s) == [t |-> "str", v |-> s]
JNum(n) == [t |-> "num", v |-> n]
JBool(b) == [t |-> "bool", v |-> b]
JArr(s) == [t |-> "arr", v |-> s]
JObj(f) == [t |-> "obj", v |-> f]

\* The Rust field types of the catalog structs.
Scalar(k) == [tag |-> "scalar", of |-> k]
Opt(ty) == [tag |-> "option", of |-> ty]
VecOf(ty) == [tag |-> "vec", of |-> ty]
Struct(s) == [tag |-> "struct", of |-> s]
TUuid == Scalar("Uuid")
TString == Scalar("String")
TU64 == Scalar("u64")
TU32 == Scalar("u32")
TU8 == Scalar("u8")
TBool == Scalar("bool")

\* A struct field: the key serde reads it from, and #[serde(default)].
Field(key, ty) == [key |-> key, ty |-> ty, default |-> FALSE]
Dflt(key, ty) == [key |-> key, ty |-> ty, default |-> TRUE]

-----------------------------------------------------------------------------
(* The schemas of models.rs, one per struct.                              *)

ArtistCredit ==
    [name |-> Field("name", TString),
     artist |-> Field("artist", Struct("ArtistRef")),
     joinphrase |-> Dflt("joinphrase", TString)]

ArtistRef ==
    [id |-> Field("id", TUuid), name |-> Field("name", TString),
     sort_name |-> Field("sort-name", Opt(TString)),
     disambiguation |-> Field("disambiguation", Opt(TString))]

Artist ==
    [id |-> Field("id", TUuid), name |-> Field("name", TString),
     sort_name |-> Field("sort-name", Opt(TString)),
     artist_type |-> Field("type", Opt(TString)),
     country |-> Field("country", Opt(TString)),
     disambiguation |-> Field("disambiguation", Opt(TString)),
     life_span |-> Field("life-span", Opt(Struct("LifeSpan"))),
     recordings |-> Dflt("recordings", VecOf(Struct("RecordingRef"))),
     releases |-> Dflt("releases", VecOf(Struct("ReleaseRef")))]

LifeSpan ==
    [begin |-> Field("begin", Opt(TString)), end |-> Field("end", Opt(TString)),
     ended |-> Field("ended", Opt(TBool))]

RecordingRef ==
    [id |-> Field("id", TUuid), title |-> Field("title", TString),
     length |-> Field("length", Opt(TU64)),
     disambiguation |-> Field("disambiguation", Opt(TString))]

(* Mutant: the serde rename of first_release_date left out.              *)
RecordingNoRename ==
    [id |-> Field("id", TUuid), title |-> Field("title", TString),
     length |-> Field("length", Opt(TU64)),
     disambiguation |-> Field("disambiguation", Opt(TString)),
     first_release_date |-> Field("first_release_date", Opt(TString)),
     artist_credit |-> Dflt("artist-credit", VecOf(Struct("ArtistCredit"))),
     releases |-> Dflt("releases", VecOf(Struct("ReleaseRef")))]

Recording ==
    [id |-> Field("id", TUuid), title |-> Field("title", TString),
     length |-> Field("length", Opt(TU64)),
     disambiguation |-> Field("disambiguation", Opt(TString)),
     first_release_date |-> Field("first-release-date", Opt(TString)),
     artist_credit |-> Dflt("artist-credit", VecOf(Struct("ArtistCredit"))),
     releases |-> Dflt("releases", VecOf(Struct("ReleaseRef")))]

ReleaseRef ==
    [id |-> Field("id", TUuid), title |-> Field("title", TString),
     status |-> Field("status", Opt(TString)),
     date |-> Field("date", Opt(TString)),
     country |-> Field("country", Opt(TString)),
     release_group |-> Field("release-group", Opt(Struct("ReleaseGroupRef")))]

Release ==
    [id |-> Field("id", TUuid), title |-> Field("title", TString),
     status |-> Field("status", Opt(TString)),
     date |-> Field("date", Opt(TString)),
     country |-> Field("country", Opt(TString)),
     artist_credit |-> Dflt("artist-credit", VecOf(Struct("ArtistCredit"))),
     release_group |-> Field("release-group", Opt(Struct("ReleaseGroupRef")))]

ReleaseGroupRef ==
    [id |-> Field("id", TUuid), title |-> Field("title", Opt(TString)),
     primary_type |-> Field("primary-type", Opt(TString))]

RecordingSearchResult ==
    [created |-> Field("created", Opt(TString)),
     count |-> Field("count", TU32), offset |-> Field("offset", TU32),
     recordings |-> Field("recordings", VecOf(Struct("RecordingSearchHit")))]

RecordingSearchHit ==
    [id |-> Field("id", TUuid), score |-> Field("score", TU8),
     title |-> Field("title", TString),
     length |-> Field("length", Opt(TU64)),
     first_release_date |-> Field("first-release-date", Opt(TString)),
     artist_credit |-> Dflt("artist-credit", VecOf(Struct("ArtistCredit"))),
     releases |-> Dflt("releases", VecOf(Struct("ReleaseRef")))]

ArtistSearchResult ==
    [created |-> Field("created", Opt(TString)),
     count |-> Field("count", TU32), offset |-> Field("offset", TU32),
     artists |-> Field("artists", VecOf(Struct("ArtistSearchHit")))]

ArtistSearchHit ==
    [id |-> Field("id", TUuid), score |-> Field("score", TU8),
     name |-> Field("name", TString),
     sort_name |-> Field("sort-name", Opt(TString)),
     artist_type |-> Field("type", Opt(TString)),
     country |-> Field("country", Opt(TString)),
     disambiguation |-> Field("disambiguation", Opt(TString)),
     life_span |-> Field("life-span", Opt(Struct("LifeSpan")))]

ReleaseSearchResult ==
    [created |-> Field("created", Opt(TString)),
     count |-> Field("count", TU32), offset |-> Field("offset", TU32),
     releases |-> Field("releases", VecOf(Struct("ReleaseSearchHit")))]

ReleaseSearchHit ==
    [id |-> Field("id", TUuid), score |-> Field("score", TU8),
     title |-> Field("title", TString),
     status |-> Field("status", Opt(TString)),
     date |-> Field("date", Opt(TString)),
     country |-> Field("country", Opt(TString)),
     artist_credit |-> Dflt("artist-credit", VecOf(Struct("ArtistCredit"))),
     release_group |-> Field("release-group", Opt(Struct("ReleaseGroupRef")))]

Schema ==
    [ArtistCredit |-> ArtistCredit, ArtistRef |-> ArtistRef, Artist |-> Artist,
     LifeSpan |-> LifeSpan, RecordingRef |-> RecordingRef,
     Recording |-> Recording, ReleaseRef |-> ReleaseRef, Release |-> Release,
     ReleaseGroupRef |-> ReleaseGroupRef,
     RecordingSearchResult |-> RecordingSearchResult,
     RecordingSearchHit |-> RecordingSearchHit,
     ArtistSearchResult |-> ArtistSearchResult,
     ArtistSearchHit |-> ArtistSearchHit,
     ReleaseSearchResult |-> ReleaseSearchResult,
     ReleaseSearchHit |-> ReleaseSearchHit]

StructNames == DOMAIN Schema

-----------------------------------------------------------------------------
(* serde_json's Deserialize for these types.  A decoded scalar keeps its *)
(* JSON form; Option<T>::None is None and Some(x) is x; a Vec is a tagged *)
(* sequence and a struct a tagged map from its Rust field names.  The     *)
(* bounded bodies hold only small numbers, so u32 and u64 accept every    *)
(* non-negative number and u8 those up to 255.                           *)

None == [t |-> "none", v |-> "none"]
RVec(s) == [t |-> "vec", v |-> s]
RStruct(f) == [t |-> "struct", v |-> f]
Ok(v) == [ok |-> TRUE, v |-> v]
Err == [ok |-> FALSE, v |-> "ParseError"]
\* The body is not decoded yet.
Pending == [pending |-> TRUE]

\* Uuid::deserialize accepts a string that parses as a UUID.
UuidTexts == {"mbid"}

DecodeScalar(k, j) ==
    CASE k = "Uuid"   -> IF j.t = "str" /\ j.v \in UuidTexts THEN Ok(j) ELSE Err
      [] k = "String" -> IF j.t = "str" THEN Ok(j) ELSE Err
      [] k = "bool"   -> IF j.t = "bool" THEN Ok(j) ELSE Err
      [] k = "u8"     -> IF j.t = "num" /\ j.v \in 0..255 THEN Ok(j) ELSE Err
      [] OTHER        -> IF j.t = "num" /\ j.v \in Nat THEN Ok(j) ELSE Err

\* Default::default() of a #[serde(default)] field.
DefaultOf(ty) == IF ty.tag = "vec" THEN RVec(<<>>) ELSE JStr("")

\* A key absent from the object: the default of a #[serde(default)]
\* field, None for an Option, and "missing field" otherwise.
Missing(fld) ==
    IF fld.default THEN Ok(DefaultOf(fld.ty))
    ELSE IF fld.ty.tag = "option" THEN Ok(None)
    ELSE Err

RECURSIVE DecodeTy(_, _)
\* Decoding JSON value j as Rust type ty.
DecodeTy(ty, j) ==
    LET \* Every element, or every field, decoded; Err if one fails.
        All(rs, Wrap(_)) == IF \A x \in DOMAIN rs : rs[x].ok
                            THEN Ok(Wrap([x \in DOMAIN rs |-> rs[x].v]))
                            ELSE Err
        Fields(fs, o) ==
            [f \in DOMAIN fs |-> IF fs[f].key \in DOMAIN o
                                 THEN DecodeTy(fs[f].ty, o[fs[f].key])
                                 ELSE Missing(fs[f])]
    IN CASE ty.tag = "scalar" -> DecodeScalar(ty.of, j)
         [] ty.tag = "option" ->
              IF j.t = "null" THEN Ok(None) ELSE DecodeTy(ty.of, j)
         [] ty.tag = "vec" ->
              IF j.t = "arr"
              THEN All([i \in DOMAIN j.v |-> DecodeTy(ty.of, j.v[i])], RVec)
              ELSE Err
         [] ty.tag = "struct" ->
              IF j.t = "obj" THEN All(Fields(Schema[ty.of], j.v), RStruct)
              ELSE Err

-----------------------------------------------------------------------------
(* What the server sends.  The catalog's own key for each Rust field (its *)
(* name, hyphenated as spec section 5 lists, and "type" for artist_type), *)
(* independent of the serde renames above.                                *)
ApiKey(f) ==
    LET Hyphenated ==
          [sort_name |-> "sort-name", first_release_date |-> "first-release-date",
           artist_credit |-> "artist-credit", release_group |-> "release-group",
           life_span |-> "life-span", primary_type |-> "primary-type",
           artist_type |-> "type"]
    IN IF f \in DOMAIN Hyphenated THEN Hyphenated[f] ELSE f

\* A representative value for each scalar type: a valid MBID, a text, a
\* search score, a count or a length, a flag.
Sample(k) ==
    CASE k = "Uuid" -> JStr("mbid") [] k = "String" -> JStr("text")
      [] k = "u8" -> JNum(100) [] k = "bool" -> JBool(FALSE)
      [] OTHER -> JNum(7)

RECURSIVE Full(_)
\* A value of type ty with every key present and every list of length one.
Full(ty) ==
    CASE ty.tag = "scalar" -> Sample(ty.of)
      [] ty.tag = "option" -> Full(ty.of)
      [] ty.tag = "vec"    -> JArr(<<Full(ty.of)>>)
      [] ty.tag = "struct" ->
           JObj([k \in {ApiKey(f) : f \in DOMAIN Schema[ty.of]} |->
                   LET f == CHOOSE g \in DOMAIN Schema[ty.of] : ApiKey(g) = k
                   IN Full(Schema[ty.of][f].ty)])

\* The bodies of entity s with every key present: each optional value
\* null or set, each list empty or not, nested values full.
CompleteBodies(s) ==
    LET fs == Schema[s]
        Vary == {f \in DOMAIN fs : fs[f].ty.tag \in {"option", "vec"}}
        Alt(f) == IF fs[f].ty.tag = "option" THEN JNull ELSE JArr(<<>>)
    IN {JObj([k \in {ApiKey(f) : f \in DOMAIN fs} |->
               LET f == CHOOSE g \in DOMAIN fs : ApiKey(g) = k
               IN IF f \in Vary /\ ~set[f] THEN Alt(f) ELSE Full(fs[f].ty)])
        : set \in [Vary -> BOOLEAN]}

\* The full body of entity s with one key left out.
PartialBodies(s) ==
    LET full == Full(Struct(s)).v
    IN {JObj([k \in DOMAIN full \ {d} |-> full[k]]) : d \in DOMAIN full}

VARIABLES entity, body, decoded
vars == <<entity, body, decoded>>

Init ==
    /\ entity \in StructNames
    /\ body \in CompleteBodies(entity) \cup PartialBodies(entity)
    /\ decoded = Pending

\* response.json::<T>(): the body is decoded once.
Decode ==
    /\ decoded = Pending
    /\ decoded' = DecodeTy(Struct(entity), body)
    /\ UNCHANGED <<entity, body>>

Spec == Init /\ [][Decode]_vars

-----------------------------------------------------------------------------
RECURSIVE Carried(_, _)
\* Decoded value v holds what JSON value j sent, field by field under
\* the catalog's keys; a field whose key was not sent is empty or None.
Carried(v, j) ==
    LET Empty(x) == \/ x.t = "none"
                    \/ x.t = "vec" /\ x.v = <<>>
                    \/ x.t = "str" /\ x.v = ""
    IN CASE j.t = "null" -> v.t = "none"
         [] j.t = "arr" ->
              /\ v.t = "vec" /\ DOMAIN v.v = DOMAIN j.v
              /\ \A i \in DOMAIN j.v : Carried(v.v[i], j.v[i])
         [] j.t = "obj" ->
              /\ v.t = "struct"
              /\ \A f \in DOMAIN v.v :
                    IF ApiKey(f) \in DOMAIN j.v
                    THEN Carried(v.v[f], j.v[ApiKey(f)])
                    ELSE Empty(v.v[f])
         [] OTHER -> v.t = j.t /\ v.v = j.v

(* WireFieldsCarried: a body that sends every key of an entity, with any  *)
(* optional value null and any list empty, decodes (it is not ParseError) *)
(* and every field of the struct holds the value sent under the key the   *)
(* catalog uses for it: the serde renames of models.rs (sort-name,        *)
(* first-release-date, artist-credit, release-group, life-span,           *)
(* primary-type, type) match the wire, nested entities included.          *)
WireFieldsCarried ==
    ~("pending" \in DOMAIN decoded) /\ body \in CompleteBodies(entity)
        => decoded.ok /\ Carried(decoded.v, body)

(* AbsentFieldsDefault: spec section 5 says a field absent from a         *)
(* response defaults to empty or absent rather than erroring, so a body   *)
(* missing any one key still decodes.                                     *)
AbsentFieldsDefault ==
    ~("pending" \in DOMAIN decoded) => decoded.ok /\ Carried(decoded.v, body)
=============================================================================
