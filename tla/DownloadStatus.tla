--------------------------- MODULE DownloadStatus ---------------------------
(***************************************************************************)
(* DownloadStatus (src/src/db/models.rs): the status of a background       *)
(* download job, stored in the download_jobs table as text.  The two From  *)
(* impls convert between the enum and its storage string; an unrecognised  *)
(* string falls back to Pending.  Variants are written capitalised, storage *)
(* strings in lower case.                                                  *)
(***************************************************************************)
EXTENDS TLAPS

Variants == {"Pending", "Downloading", "Processing", "Completed", "Failed"}

\* impl From<DownloadStatus> for String
StatusToString(v) ==
    CASE v = "Pending"     -> "pending"
      [] v = "Downloading" -> "downloading"
      [] v = "Processing"  -> "processing"
      [] v = "Completed"   -> "completed"
      [] v = "Failed"      -> "failed"

\* The strings the program itself writes for a status.
StorageStrings == {StatusToString(v) : v \in Variants}

\* impl From<String> for DownloadStatus, with its `_ => Pending` arm.
StatusFromString(s) ==
    CASE s = "pending"     -> "Pending"
      [] s = "downloading" -> "Downloading"
      [] s = "processing"  -> "Processing"
      [] s = "completed"   -> "Completed"
      [] s = "failed"      -> "Failed"
      [] OTHER             -> "Pending"

-----------------------------------------------------------------------------
(* StatusRoundTrip: a status written with From<DownloadStatus> for String  *)
(* reads back with From<String> as the same status, so a job's state is    *)
(* never changed by storing and loading it.                                *)
THEOREM StatusRoundTrip ==
    \A v \in Variants : StatusFromString(StatusToString(v)) = v
  BY DEF Variants, StatusToString, StatusFromString

(* StatusStringsDistinct: no two statuses share a storage string, so the   *)
(* text column tells every status apart.                                   *)
THEOREM StatusStringsDistinct ==
    \A v, w \in Variants : StatusToString(v) = StatusToString(w) => v = w
  BY DEF Variants, StatusToString

(* StatusFallback: From<String> is total and any string the program never  *)
(* writes (another casing, an empty or stale value) reads as Pending, the  *)
(* fallback of spec section 9, rather than failing.                        *)
THEOREM StatusFallback ==
    \A s \in STRING :
        /\ StatusFromString(s) \in Variants
        /\ s \notin StorageStrings => StatusFromString(s) = "Pending"
  <1> SUFFICES ASSUME NEW s \in STRING PROVE
        /\ StatusFromString(s) \in Variants
        /\ s \notin StorageStrings => StatusFromString(s) = "Pending"
    OBVIOUS
  <1>1. StorageStrings = {"pending", "downloading", "processing",
                          "completed", "failed"}
    BY DEF StorageStrings, Variants, StatusToString
  <1>2. QED
    BY <1>1 DEF StatusFromString, Variants

(* StatusLoadStore: loading a stored string and writing the status back    *)
(* gives the same string exactly when the program wrote it; every other    *)
(* string is rewritten as "pending".                                       *)
THEOREM StatusLoadStore ==
    \A s \in STRING :
        StatusToString(StatusFromString(s)) =
            IF s \in StorageStrings THEN s ELSE "pending"
  <1> SUFFICES ASSUME NEW s \in STRING PROVE
        StatusToString(StatusFromString(s)) =
            IF s \in StorageStrings THEN s ELSE "pending"
    OBVIOUS
  <1>1. StorageStrings = {"pending", "downloading", "processing",
                          "completed", "failed"}
    BY DEF StorageStrings, Variants, StatusToString
  <1>2. CASE s \in StorageStrings
    <2>1. StatusFromString(s) \in Variants /\ StatusToString(StatusFromString(s)) = s
      BY <1>1, <1>2 DEF StatusFromString, StatusToString, Variants
    <2>2. QED
      BY <1>2, <2>1
  <1>3. CASE s \notin StorageStrings
    <2>1. StatusFromString(s) = "Pending"
      BY <1>1, <1>3 DEF StatusFromString
    <2>2. QED
      BY <1>3, <2>1 DEF StatusToString
  <1>4. QED
    BY <1>2, <1>3
=============================================================================
