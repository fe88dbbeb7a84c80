------------------------------ MODULE Evidence ------------------------------
(***************************************************************************)
(* Artifacts and reviews.                                                   *)
(*                                                                         *)
(* An artifact is redacted text.  Its bytes go to an object store under     *)
(* their digest, and then, in a transaction, a row of the artifact and one  *)
(* of the run's evidence refer to them.  A review names the digests it      *)
(* looked at.  Ingests of equal bytes meet in the store and in the table.   *)
(* An object is locked until the end of its retention; after that the       *)
(* store's lifecycle may take it away.                                      *)
(***************************************************************************)
EXTENDS Integers

CONSTANTS
    Run,
    Kind,          \* run_log, failure_evidence, ...
    Content,       \* redacted texts, which stand for their digests
    Retention,     \* how many days things are kept, or NoEnd: a legal hold
    Reviewer,      \* identities, of builders too
    ReviewKey,     \* idempotency keys of reviews
    MaxIngests,    \* bounds on ingests and on reviews that are tried
    MaxReviews,
    MaxDays        \* bound on the days that pass

NoEnd == 0         \* the day a legal hold ends

ASSUME RetentionIsDays == Retention \subseteq Nat

VARIABLES
    today,
    objects,    \* the digests whose bytes are in the object store
    locks,      \* the day the lock of each digest ended or will end, if it had one
    artifacts,  \* artifact_objects
    evidence,   \* evidence
    ingests,    \* ingests under way
    started,    \* how many were started
    reviews,    \* reviews
    submitting, \* reviews that passed the checks before the insert
    submitted   \* how many did

store == <<today, objects, locks, artifacts, evidence>>
review == <<reviews, submitting, submitted>>
evidenceVars == <<today, objects, locks, artifacts, evidence, ingests, started,
                  reviews, submitting, submitted>>

EvidenceInit ==
    /\ today = 0
    /\ objects = {} /\ locks = [d \in Content |-> NoEnd]
    /\ artifacts = {} /\ evidence = {}
    /\ ingests = {} /\ started = 0
    /\ reviews = {} /\ submitting = {} /\ submitted = 0

Move(i, stage) == ingests' = (ingests \ {i}) \cup {[i EXCEPT !.stage = stage]}
Drop(i) == ingests' = ingests \ {i}

\* A legal hold does not expire.
Expired(until) == until # NoEnd /\ until <= today

\* ingest: the text is read, redacted and bounded, and staged in a local file.
\* How long the artifact is kept is counted from here.
StartIngest(run, kind, digest, retention) ==
    /\ started < MaxIngests
    /\ started' = started + 1
    /\ ingests' = ingests \cup {[id |-> started, run |-> run, kind |-> kind,
            digest |-> digest, stage |-> "staged", wrote |-> FALSE,
            until |-> IF retention = NoEnd THEN NoEnd ELSE today + retention]}
    /\ UNCHANGED <<store, review>>

\* putImmutable asks whether the object is there.  One that is keeps its lock.
HeadObject(i) ==
    /\ i.stage = "staged"
    /\ Move(i, IF i.digest \in objects THEN "put" ELSE "absent")
    /\ UNCHANGED <<store, started, review>>

\* It is written unless another ingest was first, and locked as long as the
\* ingest that writes it keeps its artifact.  The request may be lost.  "wrote"
\* remembers, for the properties, who wrote the object.
PutObject(i, arrives) ==
    LET writes == arrives /\ i.digest \notin objects
    IN  /\ i.stage = "absent"
        /\ objects' = IF writes THEN objects \cup {i.digest} ELSE objects
        /\ locks' = IF writes THEN [locks EXCEPT ![i.digest] = i.until] ELSE locks
        /\ ingests' = (ingests \ {i})
                         \cup {[i EXCEPT !.stage = "sent", !.wrote = writes]}
        /\ UNCHANGED <<today, artifacts, evidence, started, review>>

\* The object is asked for once more; an upload without a receipt fails.
\* Mutant of Uploaded: the upload is taken to have succeeded.
UploadedMutant(digest) == TRUE
Uploaded(digest) == digest \in objects

ConfirmObject(i) ==
    /\ i.stage = "sent"
    /\ IF Uploaded(i.digest) THEN Move(i, "put") ELSE Drop(i)
    /\ UNCHANGED <<store, started, review>>

\* saveArtifact: the row of this kind and digest is kept or inserted, and the
\* evidence takes what it says.  The object's key is unique too and is made of
\* the digest alone, so equal bytes of another kind fail on its index.
SaveArtifact(i) ==
    LET others == {a \in artifacts : a.digest = i.digest /\ a.kind # i.kind}
        row == [kind |-> i.kind, digest |-> i.digest, until |-> i.until,
                wrote |-> i.wrote]
        stored == {a \in artifacts : a.digest = i.digest}
        kept == IF stored = {} THEN row ELSE CHOOSE a \in stored : TRUE
        known == \E e \in evidence :
            <<e.run, e.kind, e.digest>> = <<i.run, i.kind, i.digest>>
    IN  /\ i.stage = "put"
        /\ Drop(i)
        /\ IF others # {}
           THEN UNCHANGED <<artifacts, evidence>>
           ELSE /\ artifacts' = artifacts \cup {kept}
                /\ evidence' = IF known THEN evidence ELSE evidence \cup
                        {[run |-> i.run, kind |-> i.kind, digest |-> i.digest,
                          until |-> kept.until]}
        /\ UNCHANGED <<today, objects, locks, started, review>>

\* The process ends, or a call fails, anywhere: what was written stays.
LoseIngest(i) ==
    /\ Drop(i)
    /\ UNCHANGED <<store, started, review>>

\* The lifecycle of the bucket: an object past its lock is cleaned away, one
\* under a lock or a legal hold never.
Purge(digest) ==
    /\ digest \in objects /\ Expired(locks[digest])
    /\ objects' = objects \ {digest}
    /\ UNCHANGED <<today, locks, artifacts, evidence, ingests, started, review>>

DayPasses ==
    /\ today < MaxDays
    /\ today' = today + 1
    /\ UNCHANGED <<objects, locks, artifacts, evidence, ingests, started, review>>

-----------------------------------------------------------------------------
(* Reviews.                                                                 *)

\* findArtifactByDigest: evidence of this very run.
HasArtifact(run, digest) ==
    \E e \in evidence : e.run = run /\ e.digest = digest

\* submit, up to the insert.
StartReview(run, key, builder, reviewer, digests) ==
    /\ submitted < MaxReviews
    /\ builder # reviewer
    /\ digests # {}
    /\ \A d \in digests : HasArtifact(run, d)
    /\ ~\E r \in reviews : r.run = run /\ r.key = key
    /\ submitted' = submitted + 1
    /\ submitting' = submitting \cup {[id |-> submitted, run |-> run, key |-> key,
            builder |-> builder, reviewer |-> reviewer, digests |-> digests]}
    /\ UNCHANGED <<store, ingests, started, reviews>>

\* saveReview: a key that has its review keeps it, whatever this one says.
SaveReview(s) ==
    /\ submitting' = submitting \ {s}
    /\ reviews' = IF \E r \in reviews : r.run = s.run /\ r.key = s.key
                  THEN reviews ELSE reviews \cup {s}
    /\ UNCHANGED <<store, ingests, started, submitted>>

EvidenceNext ==
    \/ \E run \in Run, kind \in Kind, digest \in Content, retention \in Retention :
            StartIngest(run, kind, digest, retention)
    \/ \E i \in ingests :
            \/ HeadObject(i) \/ ConfirmObject(i) \/ SaveArtifact(i) \/ LoseIngest(i)
            \/ \E arrives \in BOOLEAN : PutObject(i, arrives)
    \/ \E run \in Run, key \in ReviewKey, builder, reviewer \in Reviewer,
          digests \in SUBSET Content :
            StartReview(run, key, builder, reviewer, digests)
    \/ \E s \in submitting : SaveReview(s)
    \/ \E digest \in Content : Purge(digest)
    \/ DayPasses

\* createGrant, for somebody who may see the artifact.
Downloadable(a) == ~Expired(a.until) /\ a.digest \in objects

-----------------------------------------------------------------------------
(* Properties.                                                              *)

\* What the rows and the requests hold.
ArtifactRow == [kind : Kind, digest : Content, until : Nat, wrote : BOOLEAN]
EvidenceRow == [run : Run, kind : Kind, digest : Content, until : Nat]
Ingest == [id : Nat, run : Run, kind : Kind, digest : Content, until : Nat,
           wrote : BOOLEAN, stage : {"staged", "absent", "sent", "put"}]
ReviewRow == [id : Nat, run : Run, key : ReviewKey, builder : Reviewer,
              reviewer : Reviewer, digests : SUBSET Content]
EvidenceTypes ==
    /\ today \in Nat
    /\ objects \in SUBSET Content
    /\ locks \in [Content -> Nat]
    /\ artifacts \in SUBSET ArtifactRow
    /\ evidence \in SUBSET EvidenceRow
    /\ ingests \in SUBSET Ingest
    /\ started \in Nat
    /\ reviews \in SUBSET ReviewRow
    /\ submitting \in SUBSET ReviewRow
    /\ submitted \in Nat

\* Whatever crashes or is lost between the store and the table, evidence leads
\* to one artifact, of its kind and kept as long.  An artifact that has not
\* expired can be downloaded, by a legal hold for ever, whatever the lifecycle
\* cleans away; but not for sure when its ingest found the object there, for
\* then its lock is that of whoever wrote it and may have ended, a legal hold or
\* not.  And a review rests on evidence of its own run, by somebody who did not
\* build it, one for a key (artifact-ingestion-service.ts ingest,
\* s3-object-store.ts putImmutable, artifact-download-service.ts createGrant,
\* postgres-evidence-repository.ts saveArtifact, review-service.ts submit).
EvidenceStands ==
    /\ \A a, b \in artifacts : a.digest = b.digest => a = b
    /\ \A e \in evidence : \E a \in artifacts :
        <<a.kind, a.digest, a.until>> = <<e.kind, e.digest, e.until>>
    /\ \A a \in artifacts :
        \/ Expired(a.until) \/ Downloadable(a)
        \/ ~a.wrote /\ Expired(locks[a.digest])
    /\ \A r \in reviews :
        /\ r.builder # r.reviewer
        /\ \A d \in r.digests : HasArtifact(r.run, d)
        /\ \A s \in reviews : <<r.run, r.key>> = <<s.run, s.key>> => r = s
=============================================================================
