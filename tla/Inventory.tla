----------------------------- MODULE Inventory -----------------------------
(***************************************************************************)
(* The walk of one day directory (walkAndStat in                           *)
(* internal/storage/inventory.go) beside the writer and its gzip worker.   *)
(* WalkDir lists the directory once and takes the size of each entry only  *)
(* when it gets to it; an entry that is gone by then is passed over.       *)
(***************************************************************************)
EXTENDS Integers, Sequences

CONSTANTS
    Keys,       \* key hashes of the day
    KeyOrder,   \* the same, in the order of the directory listing
    MaxSize     \* bytes of any file

\* A directory lists each of its entries once.
ASSUME InventoryAssumption ==
    /\ MaxSize \in Nat \ {0}
    /\ KeyOrder \in Seq(Keys)
    /\ \A k \in Keys : \E i \in DOMAIN KeyOrder : KeyOrder[i] = k
    /\ \A i, j \in DOMAIN KeyOrder : KeyOrder[i] = KeyOrder[j] => i = j

Absent == -1
Kinds == <<"media", "plain", "zip">>

VARIABLES
    plain, zip, media,      \* bytes of each file of a key, or Absent
    gz,                     \* the gzip worker of a key: "open" while the day lasts,
                            \* "copying", "copied", "closed"
    wpc, at,                \* the walk, and the entry it is at
    listed,                 \* what ReadDir found: pairs of key and kind
    found,                  \* the FileInfo of each key
    touched                 \* keys whose files have changed since the listing

dayFiles == <<plain, zip, media>>
walk == <<wpc, at, listed, found>>
walkVars == <<dayFiles, gz, walk, touched>>

Unseen == [size |-> 0, dated |-> FALSE, media |-> 0]

WalkInit ==
    /\ plain = [k \in Keys |-> Absent] /\ zip = [k \in Keys |-> Absent]
    /\ media = [k \in Keys |-> Absent]
    /\ gz = [k \in Keys |-> "open"]
    /\ wpc = "idle" /\ at = 1 /\ listed = {}
    /\ found = [k \in Keys |-> Unseen]
    /\ touched = {}

HasLog(k) == plain[k] # Absent \/ zip[k] # Absent

-----------------------------------------------------------------------------
(* The writer and the gzip worker. *)

Touch(k) == touched' = touched \cup {k} /\ UNCHANGED walk

\* A line is appended, to a new file if need be.
AppendLine(k) ==
    /\ gz[k] = "open" /\ plain[k] < MaxSize
    /\ plain' = [plain EXCEPT ![k] = IF @ = Absent THEN 1 ELSE @ + 1]
    /\ UNCHANGED <<zip, media, gz>>
    /\ Touch(k)

\* The media of a line go to files of their own, after the line.
Extract(k) ==
    /\ plain[k] > 0 /\ gz[k] = "open" /\ media[k] < MaxSize
    /\ media' = [media EXCEPT ![k] = IF @ = Absent THEN 1 ELSE @ + 1]
    /\ UNCHANGED <<plain, zip, gz>>
    /\ Touch(k)

GzipOpens(k) ==
    /\ gz[k] = "open" /\ plain[k] # Absent
    /\ gz' = [gz EXCEPT ![k] = "copying"]
    /\ zip' = [zip EXCEPT ![k] = 0]
    /\ UNCHANGED <<plain, media>>
    /\ Touch(k)

\* The copy succeeds, or fails and is removed.
GzipCopies(k) ==
    /\ gz[k] = "copying"
    /\ \/ gz' = [gz EXCEPT ![k] = "copied"] /\ zip' = [zip EXCEPT ![k] = 1]
       \/ gz' = [gz EXCEPT ![k] = "closed"] /\ zip' = [zip EXCEPT ![k] = Absent]
    /\ UNCHANGED <<plain, media>>
    /\ Touch(k)

\* The plain file is removed, or stays beside the compressed one.
GzipUnlinks(k) ==
    /\ gz[k] = "copied"
    /\ gz' = [gz EXCEPT ![k] = "closed"]
    /\ plain' \in {plain, [plain EXCEPT ![k] = Absent]}
    /\ UNCHANGED <<zip, media>>
    /\ Touch(k)

-----------------------------------------------------------------------------
(* The walk. *)

\* WalkDir visits the directory of a key before its files.
Last == Len(Kinds) * Len(KeyOrder)
KeyAt(i) == KeyOrder[((i - 1) \div Len(Kinds)) + 1]
KindAt(i) == Kinds[((i - 1) % Len(Kinds)) + 1]

OnDisk(k) == [media |-> media[k], plain |-> plain[k], zip |-> zip[k]]

Listing == {e \in Keys \X {"media", "plain", "zip"} : OnDisk(e[1])[e[2]] # Absent}

ListsDay ==
    /\ wpc = "idle"
    /\ wpc' = "walk" /\ at' = 1
    /\ listed' = Listing
    /\ found' = [k \in Keys |-> Unseen]
    /\ touched' = {}
    /\ UNCHANGED <<dayFiles, gz>>

\* An entry that was listed and is still there is measured.
Present(k, t) == <<k, t>> \in listed /\ OnDisk(k)[t] # Absent

\* MUTANT: the measurement keeps the last form only.
MeasuresLast(k, t) ==
    IF t = "media" THEN [found[k] EXCEPT !.media = OnDisk(k)[t]]
    ELSE [found[k] EXCEPT !.size = OnDisk(k)[t], !.dated = TRUE]

\* The forms of a log are added up; media have no modification time.
Measures(k, t) ==
    IF t = "media" THEN [found[k] EXCEPT !.media = @ + OnDisk(k)[t]]
    ELSE [found[k] EXCEPT !.size = @ + OnDisk(k)[t], !.dated = TRUE]

Visits ==
    /\ wpc = "walk" /\ at <= Last
    /\ at' = at + 1
    /\ found' = IF Present(KeyAt(at), KindAt(at))
                THEN [found EXCEPT ![KeyAt(at)] = Measures(KeyAt(at), KindAt(at))]
                ELSE found
    /\ UNCHANGED <<dayFiles, gz, wpc, listed, touched>>

\* The tick goes on with what was found; the next one walks again.
EndsWalk ==
    /\ wpc = "walk" /\ at = Last + 1
    /\ wpc' = "idle"
    /\ UNCHANGED <<dayFiles, gz, at, listed, found, touched>>

WalkNext ==
    \/ \E k \in Keys : AppendLine(k) \/ Extract(k) \/ GzipOpens(k) \/ GzipCopies(k) \/ GzipUnlinks(k)
    \/ ListsDay \/ Visits \/ EndsWalk

WalkSpec == WalkInit /\ [][WalkNext]_walkVars

-----------------------------------------------------------------------------
(* Properties. *)

WalkOver == wpc = "walk" /\ at = Last + 1

WalkTypeOK ==
    /\ plain \in [Keys -> Absent..MaxSize] /\ zip \in [Keys -> Absent..MaxSize]
    /\ media \in [Keys -> Absent..MaxSize]
    /\ gz \in [Keys -> {"open", "copying", "copied", "closed"}]
    /\ wpc \in {"idle", "walk"} /\ at \in 1..(Last + 1)
    /\ listed \subseteq Keys \X {"media", "plain", "zip"}
    /\ found \in [Keys -> [size : 0..(2 * MaxSize), dated : BOOLEAN, media : 0..MaxSize]]
    /\ touched \subseteq Keys

Actual(x) == IF x = Absent THEN 0 ELSE x

\* What nobody touches during the walk is measured to the byte, in
\* whichever form or forms a crash or a failed compression has left it; and
\* whatever goes on, a log that was listed and whose file is still there is
\* found and dated (walkBuckets).
QuietBucketMeasured ==
    WalkOver =>
        /\ \A k \in Keys \ touched :
            found[k] = [size |-> Actual(plain[k]) + Actual(zip[k]), dated |-> HasLog(k),
                        media |-> Actual(media[k])]
        /\ \A k \in Keys, t \in {"plain", "zip"} :
            <<k, t>> \in listed /\ OnDisk(k)[t] # Absent => found[k].dated

\* inventory.go:28: a bucket has no modification time only if it has no
\* JSONL file on disk, so that what passes for an orphan is one.
UndatedHasNoLog ==
    WalkOver => \A k \in Keys : ~ found[k].dated /\ found[k].media > 0 => ~ HasLog(k)
=============================================================================
