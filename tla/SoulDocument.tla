----------------------------- MODULE SoulDocument -----------------------------
(***************************************************************************)
(* The agent_soul document of internal/agentcontent: what agent_soul_upsert *)
(* parses and accepts, what is stored as DocumentJSON, and whether it can  *)
(* be read again in every state it is stamped with.  Each operation of the *)
(* store starts by reading the row, so that a document that was written    *)
(* and is refused by its reader locks the owner out.                       *)
(*                                                                         *)
(* A document is a record of the facts its rules look at.  All text comes  *)
(* out of a JSON decoder and is valid UTF-8, and the four sections other   *)
(* than soul have one rule, so that one stands for them.                   *)
(***************************************************************************)
EXTENDS Integers

CONSTANTS Weights,   \* bytes of a document besides its lifecycle metadata
          Limit,     \* MaxAgentSoulDocumentBytes
          Ten,       \* the first version of two digits
          LastVersion,  \* bound on the record version
          NoSoul     \* no agent_soul row

ASSUME DocumentAssumption ==
  /\ Weights \subseteq Nat /\ Limit \in Nat /\ LastVersion \in Nat
  /\ Ten \in Nat /\ Ten > 1
  \* There is a lightest document, and a pre-v2 row of it is not oversized.
  /\ \E w \in Weights : w + 7 <= Limit /\ \A v \in Weights : w <= v

VARIABLES soul,      \* the stored row, or NoSoul
          written    \* the document of the last accepted upsert

documentVars == <<soul, written>>

-----------------------------------------------------------------------------
Hashes == {"", "sha256", "text"}
Notes  == {"absent", "null", "nullItem", "empty", "some"}
Parts  == {"missing", "noSummary", "unknown", "fine"}

\* What each field of the tool's argument may hold.
Values == [
  extra          |-> {"none", "unknown", "trailing"},
  schema         |-> {"", "v2", "other"},
  agentID        |-> {"mine", "other", ""},
  body           |-> {"absent", "both", "null", "", "fits", "over"},
  summary        |-> {"absent", "null", "blank", "untrimmed", "fits", "over"},
  structure      |-> {"absent", "noFive", "five"},
  section        |-> Parts,
  notes          |-> Notes,
  soul           |-> Parts,
  soulNotes      |-> Notes,
  refusals       |-> {"absent", "null", "empty", "partial", "some"},
  provenance     |-> {"absent", "unknown", "present"},
  source         |-> {"host_recovery", "ptah_seed", "other"},
  ids            |-> {"blank", "given"},
  candidateHash  |-> Hashes,
  model          |-> {"", "given"},
  classification |-> {"", "known", "text"},
  migration      |-> Hashes,
  producedAt     |-> {"", "time", "text"},
  historical     |-> {"absent", "false", "true"},
  weight         |-> Weights]

\* What owners, finalizations and recoveries send.
Lightest == CHOOSE w \in Weights : \A v \in Weights : w <= v

Seed == [
  extra |-> "none", schema |-> "v2", agentID |-> "mine", body |-> "fits",
  summary |-> "absent", structure |-> "five", section |-> "fine",
  notes |-> "some", soul |-> "fine", soulNotes |-> "empty", refusals |-> "some",
  provenance |-> "present", source |-> "ptah_seed", ids |-> "given",
  candidateHash |-> "sha256", model |-> "given", classification |-> "",
  migration |-> "", producedAt |-> "", historical |-> "absent",
  weight |-> Lightest]

Recovery == [Seed EXCEPT !.summary = "fits", !.structure = "absent",
                         !.source = "host_recovery", !.candidateHash = "",
                         !.model = "", !.classification = "known",
                         !.migration = "sha256", !.producedAt = "time",
                         !.historical = "false"]

Plain == [Seed EXCEPT !.schema = "", !.summary = "fits", !.structure = "absent",
                      !.provenance = "absent"]

Near(d) == UNION {{[d EXCEPT ![f] = v] : v \in Values[f]} : f \in DOMAIN Values}

Inputs == Near(Seed) \cup Near(Recovery) \cup Near(Plain)

-----------------------------------------------------------------------------
(***************************************************************************)
(* Reading JSON                                                            *)
(***************************************************************************)
ClosedNotes(notes) == notes \in {"absent", "empty", "some"}

\* A section that is there is a closed object; one that is not is left to Valid.
ClosedSection(part, notes) == part = "missing" \/ (part = "fine" /\ ClosedNotes(notes))

\* A refusal has its three texts, and the soul section has a list of them.
ClosedRefusals(refusals) == refusals \in {"empty", "some"}
ClosedSoul(d) ==
  ClosedSection(d.soul, d.soulNotes) /\ (d.soul = "fine" => ClosedRefusals(d.refusals))

\* Every object has its required fields, no other, and none that is null.
ClosedObject(d) ==
  /\ d.extra # "unknown" /\ d.provenance # "unknown"
  /\ d.body # "null" /\ d.summary # "null"

OneValue(d) == d.extra # "trailing"

Decodes(d) ==
  /\ OneValue(d)
  /\ ClosedObject(d)
  /\ d.structure = "five" => ClosedSection(d.section, d.notes) /\ ClosedSoul(d)

\* agent_soul_upsert takes exactly one of body and content.
Parses(d) == Decodes(d) /\ d.body \notin {"absent", "both"}

Trimmed(d) == IF d.summary = "untrimmed" THEN [d EXCEPT !.summary = "fits"] ELSE d

-----------------------------------------------------------------------------
(***************************************************************************)
(* The rules of a document                                                 *)
(***************************************************************************)
ValidFiveBodies(d) ==
  d.structure = "five" /\ d.section = "fine" /\ d.soul = "fine" /\ d.refusals = "some"

ValidRecovery(d) ==
  /\ d.classification = "known"
  /\ d.migration = "sha256"
  /\ d.producedAt = "time"
  /\ d.historical = "false"
  /\ d.candidateHash = "" /\ d.model = ""

ValidAuthored(d) ==
  /\ d.model = "given" /\ d.candidateHash = "sha256"
  /\ d.classification = "" /\ d.migration = "" /\ d.producedAt = ""
  /\ d.historical = "absent"

ValidProvenance(d) ==
  /\ d.ids = "given"
  /\ \/ d.source = "host_recovery" /\ ValidRecovery(d)
     \/ d.source = "ptah_seed" /\ ValidAuthored(d)

\* A well formed agent id, and the one of the row.
ValidAgentID(d) == d.agentID = "mine"

Valid(d) ==
  /\ d.schema \in {"", "v2"}
  /\ ValidAgentID(d)
  /\ d.body = "fits"
  /\ d.summary \in {"absent", "fits"}
  /\ d.structure # "absent" => ValidFiveBodies(d)
  /\ d.provenance = "present" => ValidProvenance(d)

Digits(n) == IF n < Ten THEN 1 ELSE 2
StateBytes == [draft |-> 5, published |-> 9, archived |-> 8]

Bytes(r) == r.json.weight + StateBytes[r.state] + Digits(r.soulVersion) + Digits(r.version)

\* ValidateSoulDocumentRecord, of a stamped document.
ValidRecord(r) ==
  /\ Valid(r.json)
  /\ r.json.schema # ""
  /\ r.soulVersion >= 1 /\ r.version >= 1
  /\ Bytes(r) <= Limit

\* MarshalJSON keeps an explicitly empty notes array apart from an absent one.
OmitEmpty(notes)    == IF notes = "empty" THEN "absent" ELSE notes
MarshalNotes(notes) == notes

Encoded(d) == [d EXCEPT !.notes = MarshalNotes(@), !.soulNotes = MarshalNotes(@)]

StampedRow(d, state, soulVersion, version) ==
  [json |-> Encoded([d EXCEPT !.schema = "v2"]), state |-> state,
   soulVersion |-> soulVersion, version |-> version]

\* sameSoulDocumentAuthoringContent: the encodings, without what Body stamps.
AuthoringBytes(d) == Encoded([d EXCEPT !.schema = IF @ = "" THEN "v2" ELSE @])
SameAuthoring(d, e) == AuthoringBytes(d) = AuthoringBytes(e)

-----------------------------------------------------------------------------
(***************************************************************************)
(* The operations on one row                                               *)
(***************************************************************************)
\* A pre-v2 row has a body, the column "soul_version" 0, and no document.
IsOpaque(r) == r.soulVersion = 0

PreV2 == [json |-> [Plain EXCEPT !.schema = "v2", !.summary = "absent"],
          state |-> "draft", soulVersion |-> 0, version |-> 1]

Projected(r) == IF IsOpaque(r) THEN [r EXCEPT !.soulVersion = r.version] ELSE r

\* toRecord: loadRecord fails on a row that does not satisfy it.
Reads(r) == Decodes(r.json) /\ ValidRecord(Projected(r))

DocumentInit == soul \in {NoSoul, PreV2} /\ written = Plain

NextVersion(r) == IF r = NoSoul THEN 1 ELSE r.version + 1
NextSoul(r) == IF r = NoSoul THEN 1 ELSE Projected(r).soulVersion + 1

Upsert(input) ==
  LET d == Trimmed(input)
      r == StampedRow(d, "draft", NextSoul(soul), NextVersion(soul))
  IN  /\ Parses(input)
      /\ Valid(d)
      /\ soul # NoSoul => Reads(soul) /\ soul.version < LastVersion
      /\ ValidRecord(r)
      /\ soul' = r
      /\ written' = d

\* Publish and Archive: the document that was read, stamped anew.
MoveTo(from, to) ==
  LET r == StampedRow(soul.json, to, soul.soulVersion, soul.version + 1)
  IN  /\ soul # NoSoul
      /\ Reads(soul)
      /\ ~IsOpaque(soul)
      /\ soul.version < LastVersion
      /\ soul.state = from
      /\ ValidRecord(r)
      /\ soul' = r
      /\ UNCHANGED written

DocumentNext == \/ \E input \in Inputs : Upsert(input)
                \/ MoveTo("draft", "published")
                \/ MoveTo("published", "archived")

DocumentSpec == DocumentInit /\ [][DocumentNext]_documentVars

-----------------------------------------------------------------------------
\* Whatever was accepted can be read again, in every state it is moved to,
\* however near it is to the size limit (soul_document.go:339, 383; store.go:925);
\* and it is what was written, to the last field: a seed is recognized as the
\* same declaration exactly when no authored field differs (soul_document.go:643).
StoredReadsBack ==
  soul # NoSoul =>
    /\ Reads(soul)
    /\ ~IsOpaque(soul) =>
         /\ soul.json = [written EXCEPT !.schema = "v2"]
         /\ \A d \in Near(written) :
              Decodes(d) => (SameAuthoring(soul.json, d) <=>
                               [d EXCEPT !.schema = IF @ = "" THEN "v2" ELSE @] = soul.json)
=============================================================================
