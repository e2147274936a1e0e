------------------------------ MODULE FlowUrl ------------------------------
(***************************************************************************)
(* Which flow an update is about: resolve_config_url finds the URL the     *)
(* flow is fetched from, and extract_uuid_from_url the UUID in it, which   *)
(* becomes the id of a flow whose body has none.                           *)
(*                                                                         *)
(* A character is a hexadecimal digit, a dash or another one.  The scan    *)
(* looks at up to 36 characters from the cursor on, so it reads past the   *)
(* end of the text: the rest of the array is zero, what follows the array  *)
(* is anything.                                                            *)
(***************************************************************************)
EXTENDS Integers, Sequences

CONSTANTS
  Urls,     \* the URLs the server may name, as texts
  Built,    \* the URLs that are built from an operation's identifier
  UrlBytes  \* sizeof(config_url)

Letter == {"hex", "dash", "other"}

ASSUME UrlAssumption ==
  /\ Urls \subseteq Seq(Letter) /\ Built \subseteq Seq(Letter)
  /\ UrlBytes \in Nat \ {0}

VARIABLES
  urlStep, \* where the C2 task is: "resolve", "scan", "found", "none", "refused"
  url,     \* config_url
  cursor   \* p, counted from the start of the array

urlVars == <<urlStep, url, cursor>>

----------------------------------------------------------------------------
UrlInit == urlStep = "resolve" /\ url = <<>> /\ cursor = 0

Stored(text) ==
  SubSeq(text, 1, IF Len(text) < UrlBytes THEN Len(text) ELSE UrlBytes - 1)

(* The first of the arguments location, flowUrl, configuration and url     *)
(* that is not empty, cut to the array.                                    *)
ResolveArg ==
  /\ urlStep = "resolve"
  /\ \E text \in Urls : text # <<>> /\ url' = Stored(text)
  /\ urlStep' = "scan" /\ cursor' = 0

(* None of them: the URL is built from the operation's identifier.         *)
ResolveBuilt ==
  /\ urlStep = "resolve"
  /\ \E text \in Built : text # <<>> /\ url' = Stored(text)
  /\ urlStep' = "scan" /\ cursor' = 0

(* No identifier either: the update is acknowledged as not applied.        *)
ResolveFails ==
  /\ urlStep = "resolve"
  /\ urlStep' = "refused" /\ UNCHANGED <<url, cursor>>

(* The character at p[i], zero from the end of the text on.                *)
At(i) == IF i < Len(url) THEN url[i + 1] ELSE "zero"

Dashes == {8, 13, 18, 23}

(* It looks for the dashes one after the other, so past the array from     *)
(* here, if those before have been seen.                                   *)
Strays ==
  \E d \in Dashes : /\ cursor + d >= UrlBytes
                    /\ \A e \in Dashes : e < d => At(cursor + e) = "dash"

UuidAt(p) ==
  \A i \in 0 .. 35 : At(p + i) = IF i \in Dashes THEN "dash" ELSE "hex"

Scanning == urlStep = "scan" /\ At(cursor) # "zero" /\ ~Strays

ScanFinds ==
  /\ Scanning /\ UuidAt(cursor)
  /\ urlStep' = "found" /\ UNCHANGED <<url, cursor>>

(* Whether there are dashes in the first of these places, and none in the  *)
(* next.                                                                   *)
Sees(places)    == \A d \in places : At(cursor + d) = "dash"
SeesNot(place)  == At(cursor + place) # "dash"

(* Mutant: the token the dash ends is skipped with what follows it.        *)
ScanSkipsMore ==
  /\ Scanning /\ ~UuidAt(cursor)
  /\ \/ SeesNot(8) /\ cursor' = cursor + 1
     \/ Sees({8}) /\ SeesNot(13) /\ cursor' = cursor + 9
     \/ Sees({8, 13}) /\ SeesNot(18) /\ cursor' = cursor + 14
     \/ Sees({8, 13, 18}) /\ SeesNot(23) /\ cursor' = cursor + 24
     \/ Sees(Dashes) /\ cursor' = cursor + 1
  /\ UNCHANGED <<urlStep, url>>

(* The scan skips to the last of the dashes it has seen in their places,   *)
(* and the loop adds one.                                                  *)
ScanOn ==
  /\ Scanning /\ ~UuidAt(cursor)
  /\ \/ SeesNot(8) /\ cursor' = cursor + 1
     \/ Sees({8}) /\ SeesNot(13) /\ cursor' = cursor + 9
     \/ Sees({8, 13}) /\ SeesNot(18) /\ cursor' = cursor + 14
     \/ Sees({8, 13, 18}) /\ SeesNot(23) /\ cursor' = cursor + 19
     \/ Sees(Dashes) /\ cursor' = cursor + 1
  /\ UNCHANGED <<urlStep, url>>

ScanEnds ==
  /\ urlStep = "scan" /\ At(cursor) = "zero"
  /\ urlStep' = "none" /\ UNCHANGED <<url, cursor>>

(* What lies behind the array may look like anything.                      *)
ScanStrays ==
  /\ urlStep = "scan" /\ At(cursor) # "zero" /\ Strays
  /\ urlStep' \in {"found", "none"} /\ UNCHANGED <<url, cursor>>

UrlDone == urlStep \in {"found", "none", "refused"} /\ UNCHANGED urlVars

UrlNext ==
  \/ ResolveArg \/ ResolveBuilt \/ ResolveFails
  \/ ScanFinds \/ ScanOn \/ ScanEnds \/ ScanStrays \/ UrlDone

UrlSpec == UrlInit /\ [][UrlNext]_urlVars

----------------------------------------------------------------------------
UrlTypeOK ==
  /\ urlStep \in {"resolve", "scan", "found", "none", "refused"}
  /\ url \in Seq(Letter) /\ Len(url) < UrlBytes
  /\ cursor \in 0 .. Len(url)

(* However the scan skips, it finds the first UUID in the URL, and finds   *)
(* one whenever there is one, as long as the URL leaves room for the look  *)
(* ahead in its array; nothing before the cursor was missed.               *)
FirstUuidIsFound ==
  Len(url) + 22 < UrlBytes =>
    /\ \A p \in 0 .. cursor - 1 : ~UuidAt(p)
    /\ urlStep = "found" => UuidAt(cursor)
    /\ urlStep = "none" => \A p \in 0 .. Len(url) : ~UuidAt(p)
=============================================================================
