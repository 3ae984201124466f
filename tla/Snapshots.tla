------------------------------ MODULE Snapshots ------------------------------
(***************************************************************************)
(* extract() with an Incremental, src/src/Sengkrep.js:529 and              *)
(* src/src/modules/Incremental.js: the validator of the last answer is     *)
(* sent along, and a 304 is answered with the data extracted then.  The    *)
(* entry of a page is written twice, when it is fetched, without data, and *)
(* when it was extracted; several calls for a page may be under way.       *)
(*                                                                         *)
(* A page has a version, and a validator that vouches for it.  Data are    *)
(* the version they were extracted from, or Blank for the empty body of a  *)
(* 304.  Cache and single flight are off.                                  *)
(***************************************************************************)
EXTENDS Naturals, FiniteSets

CONSTANTS
    Calls,
    MaxVersions,    \* bound: versions of the page
    NoData, Blank

ASSUME SnapshotsAssumption == NoData # Blank /\ NoData \notin Nat /\ Blank \notin Nat

VARIABLES
    page,        \* the version of the page
    entry,       \* what is recorded: etag and extracted
    call,        \* of each call the place it is at and what it knows
    meddled      \* history: the calls during which another one recorded

snapVars == <<page, entry, call, meddled>>

Idle == [place |-> "idle", etag |-> 0, got |-> 0, data |-> NoData, since |-> 0]

SnapInit ==
    /\ page = 1 /\ entry = [etag |-> 0, extracted |-> NoData]
    /\ call = [c \in Calls |-> Idle] /\ meddled = {}

Records(c, version, data) ==
    /\ entry' = [etag |-> version, extracted |-> data]
    /\ meddled' = meddled \union {d \in Calls \ {c} : call[d].place # "idle"}

Moves(c, knows) == call' = [call EXCEPT ![c] = knows]

\* getConditionalHeaders, before the first attempt.
Asks(c) ==
    /\ call[c].place = "idle" /\ call[c].since = 0
    /\ Moves(c, [call[c] EXCEPT !.place = "asking", !.etag = entry.etag, !.since = page])
    /\ UNCHANGED <<page, entry, meddled>>

\* The server answers: 304 when its version is the one vouched for.
Answered(c) ==
    /\ call[c].place = "asking"
    /\ Moves(c, [call[c] EXCEPT !.place = IF page = call[c].etag THEN "unchanged" ELSE "fetched", !.got = page])
    /\ UNCHANGED <<page, entry, meddled>>

\* _fetch records the validator.
RecordsFetch(c) ==
    /\ call[c].place = "fetched"
    /\ Records(c, call[c].got, NoData)
    /\ Moves(c, [call[c] EXCEPT !.place = "extracting"])
    /\ UNCHANGED page

\* A plugin or a strict validation throws: the call fails after its answer was recorded.
ExtractThrows(c) ==
    /\ call[c].place \in {"extracting", "blank"}
    /\ Moves(c, [call[c] EXCEPT !.place = "failed"])
    /\ UNCHANGED <<page, entry, meddled>>

\* The slip of keeping the entry's validator.
RecordsExtractOld(c) ==
    /\ call[c].place = "extracting"
    /\ Records(c, entry.etag, call[c].got)
    /\ Moves(c, [call[c] EXCEPT !.place = "done", !.data = call[c].got])
    /\ UNCHANGED page

\* The end of extract.
RecordsExtract(c) ==
    /\ call[c].place = "extracting"
    /\ Records(c, call[c].got, call[c].got)
    /\ Moves(c, [call[c] EXCEPT !.place = "done", !.data = call[c].got])
    /\ UNCHANGED page

\* A 304 is answered with what is recorded by now, or else its empty body is extracted.
AnswersSnapshot(c) ==
    /\ call[c].place = "unchanged"
    /\ IF entry.extracted # NoData
       THEN Moves(c, [call[c] EXCEPT !.place = "done", !.data = entry.extracted])
       ELSE Moves(c, [call[c] EXCEPT !.place = "blank"])
    /\ UNCHANGED <<page, entry, meddled>>

AnswersBlank(c) ==
    /\ call[c].place = "blank"
    /\ Moves(c, [call[c] EXCEPT !.place = "done", !.data = Blank])
    /\ UNCHANGED <<page, entry, meddled>>

\* paginate, crawl or fetch read the page: their answer is recorded without data.
ReadOtherwise ==
    /\ entry.etag # page
    /\ entry' = [etag |-> page, extracted |-> NoData]
    /\ meddled' = meddled \union {d \in Calls : call[d].place # "idle"}
    /\ UNCHANGED <<page, call>>

PageChanges == page < MaxVersions /\ page' = page + 1 /\ UNCHANGED <<entry, call, meddled>>

SnapStep(c) ==
    \/ Asks(c) \/ Answered(c) \/ RecordsFetch(c) \/ ExtractThrows(c) \/ RecordsExtract(c)
    \/ AnswersSnapshot(c) \/ AnswersBlank(c)

SnapNext == PageChanges \/ ReadOtherwise \/ \E c \in Calls : SnapStep(c)

-----------------------------------------------------------------------------
\* Data recorded with a validator are of the version it vouches for; a call that no other
\* call for the page came between is answered with the version the page had when the server
\* answered, or, after an answer whose extraction failed or was not asked for, with what
\* is extracted from the empty body of a 304.
SnapshotsVouch ==
    /\ entry.extracted \in {NoData, entry.etag}
    /\ \A c \in Calls \ meddled :
          call[c].place = "done" =>
             \/ call[c].data = call[c].got /\ call[c].got >= call[c].since
             \/ call[c].data = Blank /\ call[c].etag = call[c].got
=============================================================================
