---------------------------------- MODULE Kyc ----------------------------------
(***************************************************************************)
(* How one student is verified (src/kyc, with src/face and the image store *)
(* as the services it waits for): the UserKyc row, the card columns of the *)
(* Student row and the UserFaceEmbedding row, which the booth compares     *)
(* faces with.                                                             *)
(*                                                                         *)
(* register has the two photographs embedded, uploads them and then sends  *)
(* its upserts together: each commits on its own, in any order, and when   *)
(* one fails the others are not called back.  The reviewers' handlers read *)
(* the row, wait, and update it by the student's id.                       *)
(*                                                                         *)
(* A photograph is known by the attempt that brought it.  Texts, dates and *)
(* reviewers are left out, and so are the permission checks.               *)
(***************************************************************************)
EXTENDS Integers, FiniteSets

CONSTANTS
  Process,      \* requests handled at the same time
  Score,        \* how like two faces can be
  EnvThreshold, \* the environment's threshold, or None when absent or unusable
  Default,      \* DEFAULT_KYC_CARD_THRESHOLD
  None,         \* null
  MaxAttempts   \* bound: registrations

\* What the constants are; the instances assume it.
ConstantsAssumption ==
  /\ IsFiniteSet(Process) /\ None \notin Process
  /\ Score \subseteq Int /\ Default \in Score
  /\ None \notin Score /\ EnvThreshold \in Score \cup {None}
  /\ MaxAttempts \in Nat

VARIABLES
  attempts,     \* registrations begun
  threshold,    \* the system setting, or None
  status,       \* kycStatus
  review,       \* kycManualReviewStatus
  face,         \* kycFaceImageUrl, or 0
  card,         \* studentCardImageUrl is not null
  cardVerified, \* studentCardVerifiedAt is not null
  embedding,    \* the photograph the face embedding was made of, or 0
  proc,         \* where each process is and what it has read
  matched,      \* history: attempts whose face was found to be the card's
  requested,    \* history: attempts whose face the student asked a reviewer about
  alone,        \* history: the process that has been alone since it began
  whole         \* history: no request has overlapped or failed since the last
                \* that set all rows

rows == <<status, review, face, card, cardVerified, embedding>>
history == <<matched, requested>>
solo == <<alone, whole>>
vars == <<attempts, threshold, rows, proc, history, solo>>

Attempt == 1..MaxAttempts

Idle == [pc |-> "idle"]

\* The writes a registration sends together.
Writes == {"student", "embedding", "kyc", "profile"}

Local ==
  {Idle}
  \cup [pc : {"upload", "approve"}, photo : Attempt]
  \cup [pc : {"write"}, photo : Attempt, match : BOOLEAN, left : SUBSET Writes]
  \cup [pc : {"compare"}, photo : Attempt, score : Score]
  \cup [pc : {"request", "reject", "cancel", "uncard"}]

TypeOK ==
  /\ attempts \in 0..MaxAttempts
  /\ threshold \in Score \cup {None}
  /\ status \in {"NOT_STARTED", "VERIFIED", "REJECTED"}
  /\ review \in {"NOT_REQUESTED", "PENDING", "APPROVED", "REJECTED"}
  /\ face \in 0..MaxAttempts /\ embedding \in 0..MaxAttempts
  /\ card \in BOOLEAN /\ cardVerified \in BOOLEAN
  /\ proc \in [Process -> Local]
  /\ matched \subseteq Attempt /\ requested \subseteq Attempt
  /\ alone \in Process \cup {None} /\ whole \in BOOLEAN

Init ==
  /\ attempts = 0 /\ threshold = None
  /\ status = "NOT_STARTED" /\ review = "NOT_REQUESTED"
  /\ face = 0 /\ card = FALSE /\ cardVerified = FALSE /\ embedding = 0
  /\ proc = [p \in Process |-> Idle]
  /\ matched = {} /\ requested = {}
  /\ alone = None /\ whole = TRUE

Goto(p, next) == proc' = [proc EXCEPT ![p] = next]

\* p begins; two requests at the same time are not alone.
Begin(p, next) ==
  /\ proc[p].pc = "idle"
  /\ Goto(p, next)
  /\ LET quiet == \A q \in Process : proc[q].pc = "idle" IN
     alone' = (IF quiet THEN p ELSE None) /\ whole' = (whole /\ quiet)

\* p is done; settled: it has set all the rows there are.
End(p, settled) ==
  /\ Goto(p, Idle)
  /\ whole' = (whole \/ (settled /\ alone = p))
  /\ UNCHANGED alone

-----------------------------------------------------------------------------
(* The threshold *)

SetThreshold(t) ==
  /\ threshold' = t
  /\ UNCHANGED <<attempts, rows, proc, history, solo>>

\* The setting, or else the environment's value, or else the default.
CardThreshold ==
  IF threshold # None THEN threshold
  ELSE IF EnvThreshold # None THEN EnvThreshold ELSE Default

-----------------------------------------------------------------------------
(* register *)

\* extractEmbedding of the two images, and what their embeddings have in common.
RegisterEmbed(p, score) ==
  /\ attempts < MaxAttempts
  /\ attempts' = attempts + 1
  /\ Begin(p, [pc |-> "compare", photo |-> attempts + 1, score |-> score])
  /\ UNCHANGED <<threshold, rows, history>>

Matches(score) == score >= CardThreshold

\* The score is compared with the threshold read; the images are then uploaded.
RegisterUpload(p) ==
  LET me == proc[p] IN
  /\ me.pc = "compare"
  /\ Goto(p, [pc |-> "write", photo |-> me.photo, match |-> Matches(me.score),
              left |-> IF Matches(me.score) THEN Writes ELSE Writes \ {"embedding"}])
  /\ matched' = IF Matches(me.score) THEN matched \cup {me.photo} ELSE matched
  /\ UNCHANGED <<attempts, threshold, rows, requested, solo>>

\* One of the writes of p is over.
Sent(p, w) ==
  LET left == proc[p].left \ {w} IN
  IF left = {} THEN End(p, TRUE) ELSE Goto(p, [proc[p] EXCEPT !.left = left]) /\ UNCHANGED solo

\* The two upserts of the Student row.  Of a face that is not the card's, the
\* second leaves studentCardVerifiedAt alone.
StudentWrite(p, w) ==
  /\ proc[p].pc = "write" /\ w \in proc[p].left \cap {"student", "profile"}
  /\ card' = TRUE
  /\ cardVerified' = IF proc[p].match THEN TRUE
                     ELSE IF w = "student" THEN FALSE ELSE cardVerified
  /\ Sent(p, w)
  /\ UNCHANGED <<attempts, threshold, status, review, face, embedding, history>>

EmbeddingWrite(p) ==
  /\ proc[p].pc = "write" /\ "embedding" \in proc[p].left
  /\ embedding' = proc[p].photo
  /\ Sent(p, "embedding")
  /\ UNCHANGED <<attempts, threshold, status, review, face, card, cardVerified, history>>

\* Mutant of NewReview: a new photograph takes over the request for the old one.
OldReview == UNCHANGED review

NewReview == review' = "NOT_REQUESTED"

KycWrite(p) ==
  /\ proc[p].pc = "write" /\ "kyc" \in proc[p].left
  /\ status' = IF proc[p].match THEN "VERIFIED" ELSE "REJECTED"
  /\ face' = proc[p].photo
  /\ NewReview
  /\ Sent(p, "kyc")
  /\ UNCHANGED <<attempts, threshold, card, cardVerified, embedding, history>>

\* A write is rejected: the request has failed, the other writes go on.
WriteFails(p, w) ==
  /\ proc[p].pc = "write" /\ w \in proc[p].left
  /\ Goto(p, IF proc[p].left = {w} THEN Idle
             ELSE [proc[p] EXCEPT !.left = proc[p].left \ {w}])
  /\ alone' = None /\ whole' = FALSE
  /\ UNCHANGED <<attempts, threshold, rows, history>>

-----------------------------------------------------------------------------
(* requestManualReview *)

RequestRead(p) ==
  /\ card /\ status = "REJECTED" /\ review # "PENDING"
  /\ Begin(p, [pc |-> "request"])
  /\ UNCHANGED <<attempts, threshold, rows, history>>

RequestWrite(p) ==
  /\ proc[p].pc = "request"
  /\ review' = "PENDING"
  /\ requested' = requested \cup ({face} \cap Attempt)
  /\ End(p, FALSE)
  /\ UNCHANGED <<attempts, threshold, status, face, card, cardVerified, embedding, matched>>

-----------------------------------------------------------------------------
(* approveManualReview, rejectManualReview, cancelVerifiedStatus *)

ApproveRead(p) ==
  /\ review = "PENDING" /\ face # 0
  /\ Begin(p, [pc |-> "approve", photo |-> face])
  /\ UNCHANGED <<attempts, threshold, rows, history>>

\* Mutant of Verdict: the review gets the status of the student.
VerdictAsStatus(verdict) == review' = IF verdict = "APPROVED" THEN "VERIFIED" ELSE verdict

Verdict(verdict) == review' = verdict

\* Mutant of ApproveCard: the transaction leaves the card alone.
ApproveNoCard == UNCHANGED cardVerified

ApproveCard == cardVerified' = TRUE

\* One transaction, with the embedding of the photograph read before.
ApproveWrite(p) ==
  /\ proc[p].pc = "approve"
  /\ embedding' = proc[p].photo
  /\ ApproveCard
  /\ status' = "VERIFIED" /\ Verdict("APPROVED")
  /\ End(p, TRUE)
  /\ UNCHANGED <<attempts, threshold, face, card, matched, requested>>

RejectRead(p) ==
  /\ review = "PENDING"
  /\ Begin(p, [pc |-> "reject"])
  /\ UNCHANGED <<attempts, threshold, rows, history>>

RejectWrite(p) ==
  /\ proc[p].pc = "reject"
  /\ status' = "REJECTED" /\ Verdict("REJECTED")
  /\ End(p, FALSE)
  /\ UNCHANGED <<attempts, threshold, face, card, cardVerified, embedding, matched, requested>>

CancelRead(p) ==
  /\ status = "VERIFIED"
  /\ Begin(p, [pc |-> "cancel"])
  /\ UNCHANGED <<attempts, threshold, rows, history>>

CancelWrite(p) ==
  /\ proc[p].pc = "cancel"
  /\ status' = "REJECTED" /\ review' = "NOT_REQUESTED"
  /\ Goto(p, [pc |-> "uncard"])
  /\ UNCHANGED <<attempts, threshold, face, card, cardVerified, embedding, history, solo>>

\* The card is not verified either; an error of this write is swallowed.
CancelCard(p, written) ==
  /\ proc[p].pc = "uncard"
  /\ cardVerified' = (cardVerified /\ ~written)
  /\ IF written THEN End(p, TRUE) ELSE Goto(p, Idle) /\ alone' = None /\ whole' = FALSE
  /\ UNCHANGED <<attempts, threshold, status, review, face, card, embedding, history>>

-----------------------------------------------------------------------------
\* No embedding, an upload or a write rejected, or the server restarts.
Fail(p) ==
  /\ proc[p].pc # "idle"
  /\ Goto(p, Idle)
  /\ alone' = None /\ whole' = FALSE
  /\ UNCHANGED <<attempts, threshold, rows, history>>

Step(p) ==
  \/ \E score \in Score : RegisterEmbed(p, score)
  \/ RegisterUpload(p) \/ EmbeddingWrite(p) \/ KycWrite(p)
  \/ \E w \in Writes : StudentWrite(p, w) \/ WriteFails(p, w)
  \/ RequestRead(p) \/ RequestWrite(p)
  \/ ApproveRead(p) \/ ApproveWrite(p)
  \/ RejectRead(p) \/ RejectWrite(p)
  \/ CancelRead(p) \/ CancelWrite(p) \/ \E written \in BOOLEAN : CancelCard(p, written)
  \/ Fail(p)

Next ==
  \/ \E p \in Process : Step(p)
  \/ \E t \in Score : SetThreshold(t)

Spec == Init /\ [][Next]_vars

-----------------------------------------------------------------------------
(* Properties *)

(***************************************************************************)
(* The booth compares faces with an embedding that somebody has vouched    *)
(* for: the photograph it was made of matched the student's card, or it    *)
(* was the one on record when the student asked for a review.  So it       *)
(* remains when registrations, requests and verdicts overlap, and when     *)
(* some of a registration's writes are lost.                               *)
(***************************************************************************)
FaceIsVouchedFor == embedding \in {0} \cup matched \cup requested

(***************************************************************************)
(* Overlapping requests and lost writes may leave the three rows           *)
(* disagreeing (VERIFIED without an embedding, say).  The next             *)
(* registration, approval or cancellation that is alone from beginning to  *)
(* end repairs them, and they agree until requests overlap or fail again.  *)
(***************************************************************************)
RowsAgree ==
  /\ (status = "VERIFIED") = cardVerified
  /\ status = "VERIFIED" => embedding = face /\ face # 0

RepairedWhenAlone ==
  (whole /\ \A p \in Process : proc[p].pc = "idle") => RowsAgree
=============================================================================
