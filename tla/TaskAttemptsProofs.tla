-------------------------- MODULE TaskAttemptsProofs --------------------------
(***************************************************************************)
(* Proofs about the attempts at one task, for every retry limit and every   *)
(* confidence threshold.                                                    *)
(***************************************************************************)
EXTENDS TaskAttempts, TLAPS


-----------------------------------------------------------------------------
(* Claims.                                                                  *)

\* The texts the rules tell apart.
LEMMA TextTypes ==
  /\ Blank \in Message
  /\ \A a, b \in Message : /\ FirstText(a, b) \in Message
                           /\ FirstText(a, b) = Blank <=> a = Blank /\ b = Blank
  BY DEF FirstText, Message, Blank

\* Error details are built of known parts.
LEMMA ErrorDetailsType ==
  ASSUME NEW retryable \in Ternary, NEW message \in Message
  PROVE  /\ ErrorDetails(retryable, message) \in Details
         /\ ErrorDetails(retryable, message).retryable = retryable
         /\ ErrorDetails(retryable, message).message # Blank
         /\ ~ErrorDetails(retryable, message).verifier
<1>1. FirstText(message, "other") \in Message /\ FirstText(message, "other") # Blank
  BY TextTypes DEF Message, Blank
<1> QED
  BY <1>1 DEF ErrorDetails, Details

\* What the executor claims of a result: a claimed success says nothing of an error, and the
\* error of a server is final.
LEMMA ClaimOfResult ==
  ASSUME NEW t \in Tool, NEW e \in Expectation, NEW r \in Result
  PROVE  LET c == ClaimOf(t, e, r) IN
         /\ c \in Claim /\ c.tool = t /\ c.expects = e /\ c.result = r
         /\ c.claimed_success => c.error = Blank
         /\ r.kind # "dict" => c.details = None
         /\ r.kind = "dict" /\ ~Claimed(r) /\ c.error = Blank => r.text = Blank
         /\ r.is_error /\ c.details # None => c.details.retryable = "no"
<1> DEFINE claimed == r.kind # "dict" \/ Claimed(r)
           error == IF claimed THEN Blank ELSE FirstText(r.text, ResultError(r))
           details == IF claimed THEN None
                      ELSE IF r.is_error THEN ErrorDetails("no", ResultError(r))
                      ELSE IF error # Blank THEN ErrorDetails("unsaid", error)
                      ELSE None
<1>1. r.text \in Message /\ r.is_error \in BOOLEAN
  BY DEF Result
<1>2. ResultError(r) \in Message
  BY <1>1, TextTypes DEF ResultError, Message
<1>3. /\ error \in Message /\ claimed \in BOOLEAN
      /\ claimed => error = Blank
      /\ ~claimed /\ error = Blank => r.text = Blank
  <2>1. claimed \in BOOLEAN
    BY DEF Claimed
  <2> HIDE DEF claimed
  <2> QED BY <1>1, <1>2, <2>1, TextTypes
<1>4. /\ details \in Details \cup {None}
      /\ claimed => details = None
      /\ r.is_error /\ details # None => details.retryable = "no"
  <2> HIDE DEF claimed, error
  <2> QED BY <1>1, <1>2, <1>3, ErrorDetailsType DEF Ternary
<1>5. PICK b \in BOOLEAN : b <=> claimed
  BY <1>3
<1> DEFINE c == ClaimOf(t, e, r)
<1>6. c = [tool |-> t, expects |-> e, result |-> r, claimed_success |-> b, error |-> error,
           details |-> details]
  BY <1>5, Zenon DEF ClaimOf
<1>7. /\ c \in Claim /\ c.tool = t /\ c.expects = e /\ c.result = r
      /\ c.claimed_success = b /\ c.error = error /\ c.details = details
  <2> HIDE DEF error, details, claimed, c
  <2>1. error \in Message /\ details \in Details \cup {None}
    BY <1>3, <1>4
  <2> QED BY <1>6, <2>1 DEF Claim
<1>8. c.claimed_success => c.error = Blank
  <2> HIDE DEF error, details, claimed, c
  <2> QED BY <1>3, <1>5, <1>7
<1>9. /\ r.kind # "dict" => c.details = None
      /\ r.kind = "dict" /\ ~Claimed(r) /\ c.error = Blank => r.text = Blank
      /\ r.is_error /\ c.details # None => c.details.retryable = "no"
  <2> HIDE DEF error, details, c
  <2> QED BY <1>3, <1>4, <1>7
<1> HIDE DEF error, details, c, claimed
<1> QED
  BY <1>7, <1>8, <1>9 DEF c

\* No result is a result.
LEMMA NoResultType == NoResult \in Result
  BY DEF NoResult, Result, Ternary, Message, Outside, Blank

\* What a call raises becomes a failure.
LEMMA CallFailureType == CallFailure \subseteq Failure /\ VerifierFailure \subseteq Failure
  BY DEF CallFailure, VerifierFailure, Failure, Message

\* What the executor claims of something raised.
LEMMA ClaimOfRaised ==
  ASSUME NEW t \in Tool, NEW e \in Expectation, NEW f \in Failure
  PROVE  LET c == ClaimOfFailure(t, e, f) IN
         /\ c \in Claim /\ c.tool = t /\ c.expects = e /\ c.result = NoResult
         /\ ~c.claimed_success
<1>1. FailureDetails(f) \in Details
  BY ErrorDetailsType DEF FailureDetails, Details, Failure, YesNo, Ternary
<1>2. FailureDetails(f).message \in Message
  BY <1>1 DEF Details
<1> QED
  BY <1>1, <1>2, NoResultType DEF ClaimOfFailure, Claim

\* What a tool answers is an answer.
LEMMA AnswerType ==
  ASSUME NEW b \in BOOLEAN, NEW d \in Ternary, NEW text \in Message
  PROVE  /\ Answer(b, d, text) \in Result
         /\ Answer(b, d, text).kind = "dict" /\ Answer(b, d, text).shown = "unsaid"
         /\ Answer(b, d, text).is_error = b
  BY NoResultType DEF Answer, NoResult, Result

\* A file has one of the contents.
LEMMA FileContentType ==
  ASSUME NEW c \in Outside
  PROVE  /\ FileContent(c) \in Result
         /\ FileContent(c).kind = "content" /\ FileContent(c).content = c
         /\ FileContent(c).shown = "unsaid"
  BY NoResultType DEF FileContent, NoResult, Result

\* What the executor has compared is a result, and says what was seen.
LEMMA ComparedType ==
  ASSUME NEW a \in Result, a.kind = "dict", a.shown = "unsaid", NEW e \in Expectation, NEW page \in Outside
  PROVE  /\ Compared(a, e, page) \in Result /\ Compared(a, e, page).kind = "dict"
         /\ Compared(a, e, page).shown = "yes" <=> Look(e, page) = "expected"
         /\ e = "none" => Look(e, page) # "expected"
         /\ Look(e, page) \in Outside
<1>1. CASE e = "none"
  BY <1>1 DEF Compared, Look, Unseen, Outside
<1>2. CASE e # "none"
  BY <1>2 DEF Compared, Look, YesNo, Result, Ternary
<1> QED
  BY <1>1, <1>2

-----------------------------------------------------------------------------
(* The claim of an attempt, and what was seen in it.                        *)

Comparing == {"browser.navigate", "browser.click"}

\* What a claim says, and what it says of what the executor saw.
Fits(c, look) ==
  /\ c \in Claim /\ c.tool = tool
  /\ c.claimed_success => c.error = Blank
  /\ c.result.is_error /\ c.details # None => c.details.retryable = "no"
  /\ c.result.shown = "no" /\ c.error = Blank => c.result.text = Blank
  /\ c.result.shown # "unsaid" => c.result.kind = "dict"
  /\ c.result.kind = "content" => c.details = None /\ c.result.content = look
  /\ look = "expected" => \/ tool \in Comparing /\ c.result.shown = "yes"
                          \/ tool = "filesystem.read_file" /\ c.result.kind = "content"
  /\ tool \in Comparing /\ c.result.shown = "yes" => look = "expected"
  /\ tool \in Comparing /\ c.expects = "none" => look # "expected"

\* Nothing was seen by an executor that does not look.
LEMMA FitsRaised ==
  ASSUME NEW e \in Expectation, NEW f \in Failure, tool \in Tool
  PROVE  Fits(ClaimOfFailure(tool, e, f), Unseen)
<1> DEFINE c == ClaimOfFailure(tool, e, f)
<1>1. /\ c \in Claim /\ c.tool = tool /\ c.result = NoResult /\ ~c.claimed_success
  BY ClaimOfRaised
<1>2. NoResult.kind = "nothing" /\ NoResult.shown = "unsaid" /\ ~NoResult.is_error
  BY DEF NoResult
<1> HIDE DEF c
<1>3. c.claimed_success => c.error = Blank
  BY <1>1
<1>4. c.result.kind = "nothing" /\ c.result.shown = "unsaid" /\ ~c.result.is_error
  BY <1>1, <1>2
<1> QED
  BY <1>1, <1>3, <1>4, Zenon DEF Fits, Unseen, c

\* A result fits the tool it is of.
LEMMA FitsResult ==
  ASSUME NEW e \in Expectation, NEW r \in Result, NEW look \in Outside, tool \in Tool,
         r.shown # "unsaid" => r.kind = "dict",
         r.kind = "content" => r.content = look,
         look = "expected" => \/ tool \in Comparing /\ r.shown = "yes"
                              \/ tool = "filesystem.read_file" /\ r.kind = "content",
         tool \in Comparing /\ r.shown = "yes" => look = "expected",
         tool \in Comparing /\ e = "none" => look # "expected"
  PROVE  Fits(ClaimOf(tool, e, r), look)
<1> DEFINE c == ClaimOf(tool, e, r)
<1>1. /\ c \in Claim /\ c.tool = tool /\ c.expects = e /\ c.result = r
      /\ c.claimed_success => c.error = Blank
      /\ r.kind # "dict" => c.details = None
      /\ r.kind = "dict" /\ ~Claimed(r) /\ c.error = Blank => r.text = Blank
      /\ r.is_error /\ c.details # None => c.details.retryable = "no"
  BY ClaimOfResult
<1>2. r.shown = "no" /\ r.kind = "dict" => ~Claimed(r)
  BY DEF Claimed
<1> HIDE DEF c
<1>3. c.claimed_success => c.error = Blank
  BY <1>1
<1>4. c.result.is_error /\ c.details # None => c.details.retryable = "no"
  BY <1>1
<1>5. c.result.shown = "no" /\ c.error = Blank => c.result.text = Blank
  BY <1>1, <1>2
<1>6. c.result.kind = "content" => c.details = None /\ c.result.content = look
  BY <1>1
<1>7. c \in Claim /\ c.tool = tool
  BY <1>1
<1>8. /\ c.result.shown # "unsaid" => c.result.kind = "dict"
      /\ look = "expected" => \/ tool \in Comparing /\ c.result.shown = "yes"
                              \/ tool = "filesystem.read_file" /\ c.result.kind = "content"
      /\ tool \in Comparing /\ c.result.shown = "yes" => look = "expected"
      /\ tool \in Comparing /\ c.expects = "none" => look # "expected"
  BY <1>1
<1> QED
  BY <1>3, <1>4, <1>5, <1>6, <1>7, <1>8, Zenon DEF Fits, c

\* The expectations a tool is called with.
LEMMA ExpectationsType == ASSUME TypeOK PROVE Expectations \subseteq Expectation
<1>1. \A t \in Tool : Plan(t) \subseteq Expectation
  BY DEF Plan, Expectation, Tool, BrowserTool, FilesystemTool, GithubTool
<1> QED
  BY <1>1 DEF Expectations, Delivered, TypeOK, Expectation

\* The world outside is one of those each tool can meet.
LEMMA OutsideTypes ==
  /\ Unseen \in Outside /\ {"absent", "empty", "other", "expected"} \subseteq Outside
  /\ Unseen # "expected"
  /\ SessionText \subseteq Message /\ {"other", "429"} \subseteq Message
  BY DEF Unseen, Outside, SessionText, Message

\* Every call of a tool ends in a claim that fits what the executor saw.
LEMMA ExecuteClaims ==
  ASSUME TypeOK, Execute
  PROVE  \E c \in Claim, now \in Outside, look \in Outside : Claims(c, now, look) /\ Fits(c, look)
<1>0. /\ tool \in Tool /\ outside \in Outside /\ Expectations \subseteq Expectation
      /\ {"yes", "no", "unsaid"} \subseteq Ternary
  BY ExpectationsType DEF TypeOK, Ternary
<1> DEFINE Goal == \E c \in Claim, now \in Outside, look \in Outside : Claims(c, now, look) /\ Fits(c, look)
<1>f. ASSUME NEW e \in Expectation, NEW f \in Failure, NEW now \in Outside,
             Claims(ClaimOfFailure(tool, e, f), now, Unseen)
      PROVE  Goal
  BY <1>0, <1>f, FitsRaised, OutsideTypes DEF Fits
<1>r. ASSUME NEW e \in Expectation, NEW now \in Outside, Raises(e, now)
      PROVE  Goal
  BY <1>f, <1>r, CallFailureType DEF Raises
<1>a. ASSUME NEW e \in Expectation, NEW r \in Result, r.kind = "dict", r.shown = "unsaid",
             NEW now \in Outside, Claims(ClaimOf(tool, e, r), now, Unseen)
      PROVE  Goal
  <2>1. Fits(ClaimOf(tool, e, r), Unseen)
    BY <1>0, <1>a, FitsResult, OutsideTypes
  <2> QED
    BY <1>a, <2>1, OutsideTypes DEF Fits
<1>b. ASSUME NEW b \in BOOLEAN, NEW d \in {"yes", "no", "unsaid"}, NEW text \in SessionText \cup {"other"}
      PROVE  LET r == Answer(b, d, text) IN r \in Result /\ r.kind = "dict" /\ r.shown = "unsaid"
  BY AnswerType, OutsideTypes DEF Ternary
<1>t. FALSE \in BOOLEAN /\ TRUE \in BOOLEAN
  OBVIOUS
<1>n. ASSUME NEW e \in Expectation, NEW now \in Outside, NEW look \in Outside, look # "expected",
             Claims(ClaimOf(tool, e, NoResult), now, look)
      PROVE  Goal
  <2>1. NoResult.kind = "nothing" /\ NoResult.shown = "unsaid"
    BY DEF NoResult
  <2>2. Fits(ClaimOf(tool, e, NoResult), look)
    BY <1>0, <1>n, <2>1, NoResultType, FitsResult
  <2> QED
    BY <1>n, <2>2 DEF Fits
<1>c. ASSUME tool \in Comparing, NEW e \in Expectation, NEW a \in Result, a.kind = "dict",
             a.shown = "unsaid", NEW page \in Outside, NEW now \in Outside, NEW look,
             look = Look(e, page), Claims(ClaimOf(tool, e, Compared(a, e, page)), now, look)
      PROVE  Goal
  <2>1. /\ Compared(a, e, page) \in Result /\ Compared(a, e, page).kind = "dict"
        /\ Compared(a, e, page).shown = "yes" <=> look = "expected"
        /\ e = "none" => look # "expected"
        /\ look \in Outside
    BY <1>c, ComparedType
  <2>2. Fits(ClaimOf(tool, e, Compared(a, e, page)), look)
    BY <1>0, <1>c, <2>1, FitsResult
  <2> QED
    BY <1>c, <2>1, <2>2 DEF Fits
<1> HIDE DEF Goal
<1> SUFFICES Goal
  BY DEF Goal
<1>1. CASE WriteFile
  <2> DEFINE r == Answer(FALSE, "unsaid", "other")
             f == [mcp |-> FALSE, message |-> "other"]
  <2>1. r \in Result /\ r.kind = "dict" /\ r.shown = "unsaid"
    BY <1>b
  <2>2. f \in Failure
    BY CallFailureType DEF CallFailure
  <2>3. PICK e \in Expectations :
          \/ Claims(ClaimOf(tool, e, r), IF e = "none" THEN "empty" ELSE "expected", Unseen)
          \/ \E now \in {outside, "empty", "other"} : Claims(ClaimOfFailure(tool, e, f), now, Unseen)
    BY <1>1 DEF WriteFile
  <2> HIDE DEF r, f
  <2> QED
    BY <1>0, <1>a, <1>f, <2>1, <2>2, <2>3, OutsideTypes
<1>2. CASE ReadFile
  <2>1. PICK e \in Expectations :
          \/ Claims(ClaimOf(tool, e, IF outside = "absent" THEN NoResult ELSE FileContent(outside)),
                    outside, outside)
          \/ Claims(ClaimOfFailure(tool, e, [mcp |-> FALSE, message |-> "other"]), outside, Unseen)
    BY <1>2 DEF ReadFile
  <2>2. ASSUME Claims(ClaimOf(tool, e, FileContent(outside)), outside, outside)
        PROVE  Goal
    <3>1. Fits(ClaimOf(tool, e, FileContent(outside)), outside)
      BY <1>0, <1>2, FileContentType, FitsResult DEF ReadFile, Comparing
    <3> QED
      BY <1>0, <2>2, <3>1 DEF Fits, Goal
  <2>3. [mcp |-> FALSE, message |-> "other"] \in Failure
    BY CallFailureType DEF CallFailure
  <2> QED
    BY <1>0, <1>f, <1>n, <2>1, <2>2, <2>3
<1>3. CASE CallGithub
  <2>1. PICK e \in Expectations :
          \/ \E now \in {outside, "expected"} : Raises(e, now)
          \/ Claims(ClaimOf(tool, e, NoResult), outside, Unseen)
          \/ Claims(ClaimOf(tool, e, Answer(FALSE, "unsaid", "other")), outside, Unseen)
          \/ \E done \in {"yes", "unsaid"}, text \in SessionText :
               Claims(ClaimOf(tool, e, Answer(FALSE, done, text)), "expected", Unseen)
          \/ \E text \in SessionText :
               Claims(ClaimOf(tool, e, Answer(TRUE, "unsaid", text)), outside, Unseen)
    BY <1>3 DEF CallGithub
  <2>2. e \in Expectation /\ "expected" \in Outside /\ Unseen \in Outside /\ Unseen # "expected"
    BY <1>0, OutsideTypes
  <2>3. CASE \E now \in {outside, "expected"} : Raises(e, now)
    BY <1>0, <1>r, <2>2, <2>3
  <2>4. CASE Claims(ClaimOf(tool, e, NoResult), outside, Unseen)
    BY <1>0, <1>n, <2>2, <2>4
  <2>5. CASE Claims(ClaimOf(tool, e, Answer(FALSE, "unsaid", "other")), outside, Unseen)
    BY <1>0, <1>a, <1>b, <2>2, <2>5
  <2>6. CASE \E done \in {"yes", "unsaid"}, text \in SessionText :
               Claims(ClaimOf(tool, e, Answer(FALSE, done, text)), "expected", Unseen)
    BY <1>0, <1>a, <1>b, <2>2, <2>6
  <2>7. CASE \E text \in SessionText :
               Claims(ClaimOf(tool, e, Answer(TRUE, "unsaid", text)), outside, Unseen)
    BY <1>0, <1>a, <1>b, <2>2, <2>7
  <2> QED
    BY <2>1, <2>3, <2>4, <2>5, <2>6, <2>7
<1>4. CASE Navigate
  <2>1. PICK e \in Expectations, page \in Outside :
          \/ Raises(e, page)
          \/ \E a \in BrowserAnswers({"unsaid"}) :
               Claims(ClaimOf(tool, e, Compared(a, e, page)), page, Look(e, page))
    BY <1>4 DEF Navigate
  <2>2. \A a \in BrowserAnswers({"unsaid"}) : a \in Result /\ a.kind = "dict" /\ a.shown = "unsaid"
    BY <1>b DEF BrowserAnswers
  <2>3. tool \in Comparing
    BY <1>4 DEF Navigate, Comparing
  <2> QED
    BY <1>0, <1>c, <1>r, <2>1, <2>2, <2>3
<1>5. CASE Fill
  <2>1. \A a \in BrowserAnswers({"yes", "no", "unsaid"}) :
          a \in Result /\ a.kind = "dict" /\ a.shown = "unsaid"
    BY <1>b DEF BrowserAnswers
  <2>2. PICK e \in Expectations :
          \/ Raises(e, outside)
          \/ \E a \in BrowserAnswers({"yes", "no", "unsaid"}) : Claims(ClaimOf(tool, e, a), outside, Unseen)
    BY <1>5 DEF Fill
  <2> QED
    BY <1>0, <1>a, <1>r, <2>1, <2>2
<1>6. CASE Click
  <2>1. tool \in Comparing
    BY <1>6 DEF Click, Comparing
  <2>2. \A a \in BrowserAnswers({"yes", "no", "unsaid"}) :
          a \in Result /\ a.kind = "dict" /\ a.shown = "unsaid"
    BY <1>b DEF BrowserAnswers
  <2>3. PICK e \in Expectations :
          \/ /\ e # "none" /\ outside = "expected"
             /\ Claims(ClaimOf(tool, e, [Answer(FALSE, "yes", "other") EXCEPT !.shown = "yes"]),
                       outside, outside)
          \/ \E page \in Outside : Raises(e, page)
          \/ \E page \in Outside, a \in BrowserAnswers({"yes", "no", "unsaid"}) :
               Claims(ClaimOf(tool, e, Compared(a, e, page)), page, Look(e, page))
          \/ e # "none" /\ \E page \in Outside, a \in BrowserAnswers({"unsaid"}) :
               Claims(ClaimOf(tool, e, Compared(a, e, page)), page, page)
    BY <1>6 DEF Click
  <2>4. CASE /\ e # "none" /\ outside = "expected"
             /\ Claims(ClaimOf(tool, e, [Answer(FALSE, "yes", "other") EXCEPT !.shown = "yes"]),
                       outside, outside)
    <3> DEFINE a == Answer(FALSE, "yes", "other")
    <3>1. a \in Result /\ a.kind = "dict" /\ a.shown = "unsaid"
      BY <1>b
    <3>2. [a EXCEPT !.shown = "yes"] = Compared(a, e, outside) /\ Look(e, outside) = outside
      BY <2>4 DEF Compared, YesNo, Look
    <3> HIDE DEF a
    <3> QED
      BY <1>0, <1>c, <2>1, <2>4, <3>1, <3>2 DEF a
  <2>5. CASE e # "none" /\ \E page \in Outside, a \in BrowserAnswers({"unsaid"}) :
               Claims(ClaimOf(tool, e, Compared(a, e, page)), page, page)
    <3>1. PICK page \in Outside, a \in BrowserAnswers({"unsaid"}) :
            Claims(ClaimOf(tool, e, Compared(a, e, page)), page, page)
      BY <2>5
    <3>2. a \in Result /\ a.kind = "dict" /\ a.shown = "unsaid"
      BY <1>b DEF BrowserAnswers
    <3>3. page = Look(e, page)
      BY <2>5 DEF Look
    <3> QED
      BY <1>0, <1>c, <2>1, <3>1, <3>2, <3>3
  <2> QED
    BY <1>0, <1>c, <1>r, <2>1, <2>2, <2>3, <2>4, <2>5
<1> QED
  BY <1>1, <1>2, <1>3, <1>4, <1>5, <1>6 DEF Execute

-----------------------------------------------------------------------------
(* Verification results.                                                    *)

\* Every verifier gives a verification.
LEMMA VerdictType ==
  ASSUME NEW outcome \in Outcome, NEW confidence \in Confidence, NEW details \in Details \cup {None},
         NEW texts \in SUBSET Message
  PROVE  LET v == Verdict(outcome, confidence, details, texts) IN
         /\ v \in Verification /\ v.outcome = outcome /\ v.confidence = confidence
         /\ v.details = details /\ v.texts = texts
         /\ v.verified <=> outcome = "verified"
         /\ ~v.judged
<1> DEFINE v == Verdict(outcome, confidence, details, texts)
<1>1. PICK b \in BOOLEAN : b <=> outcome = "verified"
  OBVIOUS
<1>2. v = [verified |-> b, confidence |-> confidence, outcome |-> outcome,
           details |-> details, texts |-> texts, judged |-> FALSE]
  BY <1>1, Zenon DEF Verdict
<1>3. /\ v \in Verification /\ v.outcome = outcome /\ v.confidence = confidence
      /\ v.details = details /\ v.texts = texts /\ v.judged = FALSE
  <2> HIDE DEF v
  <2> QED BY <1>2 DEF Verification
<1>4. v.verified <=> outcome = "verified"
  BY DEF Verdict
<1> QED
  BY <1>3, <1>4, Zenon

\* The verdicts of the verifiers.
LEMMA Verdicts ==
  /\ \A k \in Confidence :
       /\ /\ Verified(k) \in Verification /\ Verified(k).verified /\ ~Verified(k).judged
          /\ Verified(k).confidence = k /\ Verified(k).details = None
          /\ Verified(k).outcome = "verified"
       /\ /\ Missing(k) \in Verification /\ ~Missing(k).verified /\ ~Missing(k).judged
          /\ Missing(k).confidence = k /\ Missing(k).details = None
          /\ Missing(k).outcome = "evidence_missing"
  /\ /\ Inconclusive \in Verification /\ ~Inconclusive.verified /\ ~Inconclusive.judged
     /\ Inconclusive.details = None
  /\ \A k \in Confidence, d \in Details \cup {None}, text \in Message :
       LET v == ExecutionFailed(k, d, text) IN
       /\ v \in Verification /\ ~v.verified /\ ~v.judged
       /\ v.details = d /\ v.outcome = "execution_failed"
<1>1. /\ {"other"} \in SUBSET Message /\ 0 \in Confidence
      /\ {"verified", "evidence_missing", "inconclusive", "execution_failed"} \subseteq Outcome
      /\ \A text \in Message : {text, "other"} \in SUBSET Message
  BY DEF Message, Outcome, Confidence
<1>2. ASSUME NEW k \in Confidence
      PROVE  /\ Verified(k) \in Verification /\ Verified(k).verified /\ ~Verified(k).judged
             /\ Verified(k).confidence = k /\ Verified(k).details = None
             /\ Verified(k).outcome = "verified"
  BY <1>1, VerdictType DEF Verified
<1>3. ASSUME NEW k \in Confidence
      PROVE  /\ Missing(k) \in Verification /\ ~Missing(k).verified /\ ~Missing(k).judged
             /\ Missing(k).confidence = k /\ Missing(k).details = None
             /\ Missing(k).outcome = "evidence_missing"
  BY <1>1, VerdictType DEF Missing
<1>4. /\ Inconclusive \in Verification /\ ~Inconclusive.verified /\ ~Inconclusive.judged
      /\ Inconclusive.details = None
  BY <1>1, VerdictType DEF Inconclusive
<1>5. ASSUME NEW k \in Confidence, NEW d \in Details \cup {None}, NEW text \in Message
      PROVE  LET v == ExecutionFailed(k, d, text) IN
             /\ v \in Verification /\ ~v.verified /\ ~v.judged
             /\ v.details = d /\ v.outcome = "execution_failed"
  BY <1>1, <1>5, VerdictType DEF ExecutionFailed
<1> QED
  BY <1>2, <1>3, <1>4, <1>5

\* A verifier that raised verifies nothing, and is not judged.
LEMMA VerifierFailedType ==
  ASSUME NEW f \in Failure
  PROVE  LET v == VerifierFailed(f) IN
         /\ v \in Verification /\ ~v.verified /\ ~v.judged /\ ~NeedsJudge(v)
         /\ v.details \in Details
         /\ ~f.mcp /\ f.message = "other" => v.details.retryable = "no"
<1> DEFINE retryable == IF f.mcp THEN f.message \in MCPRecoverable
                                 ELSE f.message \in VerifierRecoverable
           d == [retryable |-> YesNo(retryable), message |-> f.message, verifier |-> TRUE]
           v == VerifierFailed(f)
<1>1. /\ f.message \in Message /\ {f.message, "other"} \in SUBSET Message
      /\ YesNo(retryable) \in Ternary
      /\ ~f.mcp /\ f.message = "other" => YesNo(retryable) = "no"
  BY DEF Failure, Message, YesNo, Ternary, VerifierRecoverable
<1>2. d \in Details /\ d.verifier /\ d.retryable = YesNo(retryable)
  <2> HIDE DEF retryable
  <2> QED BY <1>1 DEF Details
<1>3. v = Verdict("inconclusive", 0, d, {f.message, "other"})
  BY DEF VerifierFailed
<1>4. 0 \in Confidence /\ "inconclusive" \in Outcome
  BY DEF Confidence, Outcome
<1>5. /\ v \in Verification /\ ~v.verified /\ ~v.judged /\ v.details = d
  <2> HIDE DEF d, v
  <2> QED BY <1>1, <1>2, <1>3, <1>4, VerdictType
<1>6. ~NeedsJudge(v)
  <2> HIDE DEF d, v
  <2> QED BY <1>2, <1>5, NoneIsNoRecord DEF NeedsJudge
<1> HIDE DEF d, v, retryable
<1> QED
  BY <1>1, <1>2, <1>5, <1>6 DEF v

\* A judge that failed.
LEMMA NoJudgementType ==
  ASSUME NEW b \in BOOLEAN
  PROVE  NoJudgement(b) \in Verification /\ NoJudgement(b).judged
<1>1. ErrorDetails(YesNo(b), "other") \in Details
  BY ErrorDetailsType DEF YesNo, Ternary, Message
<1>2. 0 \in Confidence /\ "inconclusive" \in Outcome /\ {"other"} \in SUBSET Message
  BY DEF Confidence, Outcome, Message
<1> QED
  BY <1>1, <1>2 DEF NoJudgement, Verification

-----------------------------------------------------------------------------
(* What the verifiers conclude from a claim and from what they see.         *)

\* What a verified task rests on, in terms of what was seen last.
Evidence(c, look) ==
  CASE tool \in FilesystemTool ->
         look = "expected" \/ (look = "other" /\ c.expects = "none")
    [] tool \in {"browser.navigate", "browser.click"} ->
         /\ ~c.result.is_error
         /\ c.expects # "none" => look = "expected" \/ Silent(c)
    [] tool = "browser.fill" -> c.result.done = "yes"
    [] tool \in {"github.create_file", "github.get_file"} -> look # "absent"
    [] tool = "github.create_pull_request" -> look \in {"expected", "empty"}

\* What may be left to the judge.
Doubtful(c) ==
  /\ tool \in BrowserTool
  /\ ~c.result.is_error
  /\ c.result.kind = "nothing" => c.error = Blank

\* What has been seen is not put in question: it is verified, or the failure is final.
Settles(c, v) == Accepted(v) \/ ~Retryable(c, v)

\* A conclusion that is as good as what was seen.
Sound(c, v, look) ==
  /\ v \in Verification /\ ~v.judged
  /\ v.verified => Evidence(c, look)
  /\ NeedsJudge(v) => Doubtful(c) /\ look # "expected"
  /\ THRESHOLD <= 100 /\ look = "expected" => Settles(c, v)

\* Full confidence is accepted, if anything is.
LEMMA FullConfidence ==
  ASSUME THRESHOLD <= 100, NEW c
  PROVE  Settles(c, Verified(100))
  BY Verdicts, SettingsAreNat DEF Settles, Accepted, Confidence

\* A verdict with full confidence and evidence.
LEMMA SoundVerified ==
  ASSUME NEW c, NEW look, Evidence(c, look)
  PROVE  Sound(c, Verified(100), look)
<1>1. Verified(100) \in Verification /\ Verified(100).verified /\ ~Verified(100).judged
  BY Verdicts DEF Confidence
<1> QED
  BY <1>1, FullConfidence DEF Sound, NeedsJudge

\* A verdict against a task of which nothing was seen.
LEMMA SoundRefused ==
  ASSUME NEW c, NEW v \in Verification, NEW look, ~v.verified, ~v.judged, look # "expected",
         NeedsJudge(v) => Doubtful(c)
  PROVE  Sound(c, v, look)
  BY DEF Sound

\* The tools, by name.
LEMMA ToolNames ==
  /\ BrowserTool = {"browser.navigate", "browser.fill", "browser.click"}
  /\ FilesystemTool = {"filesystem.write_file", "filesystem.read_file"}
  /\ Tool = BrowserTool \cup FilesystemTool \cup
              {"github.create_file", "github.get_file", "github.create_pull_request"}
  BY DEF BrowserTool, FilesystemTool, Tool, GithubTool

\* The verifiers of files, of the repository and of pull requests.
LEMMA SoundOutside ==
  ASSUME NEW c \in Claim, NEW look \in Outside, Fits(c, look), NEW found \in Outside,
         tool \in Tool \ BrowserTool, NEW see, see = IF LooksOutside(c) THEN found ELSE look
  PROVE  Sound(c, Verify(c, found), see)
<1>0. c.tool = tool /\ {95, 100} \subseteq Confidence /\ "other" \in Message
  BY DEF Fits, Confidence, Message
<1>m. ASSUME NEW k \in {95, 100}
      PROVE  Missing(k) \in Verification /\ ~Missing(k).verified /\ ~Missing(k).judged /\ ~NeedsJudge(Missing(k))
  BY <1>0, Verdicts DEF NeedsJudge
<1>e. LET v == ExecutionFailed(100, None, "other") IN
      v \in Verification /\ ~v.verified /\ ~v.judged /\ ~NeedsJudge(v)
  BY <1>0, Verdicts DEF NeedsJudge
<1>1. CASE tool = "filesystem.write_file"
  <2>1. see = found /\ Verify(c, found) = VerifyWrite(c, found)
    BY <1>0, <1>1, ToolNames DEF LooksOutside, Verify
  <2>2. CASE found = "expected" \/ (found = "other" /\ c.expects = "none")
    <3>1. Evidence(c, found) /\ VerifyWrite(c, found) = Verified(100)
      BY <1>1, <2>2, ToolNames DEF Evidence, VerifyWrite
    <3> QED
      BY <2>1, <3>1, SoundVerified
  <2>3. CASE ~(found = "expected" \/ (found = "other" /\ c.expects = "none"))
    BY <1>e, <1>m, <2>1, <2>3, SoundRefused DEF VerifyWrite
  <2> QED
    BY <2>2, <2>3
<1>2. CASE tool = "filesystem.read_file"
  <2>1. see = look /\ Verify(c, found) = VerifyRead(c)
    BY <1>0, <1>2, ToolNames DEF LooksOutside, Verify
  <2>2. CASE c.result.kind = "content" /\ c.result.content \in {"other", "expected"}
             /\ (c.expects # "none" => c.result.content = "expected")
    <3>1. Evidence(c, look) /\ VerifyRead(c) = Verified(100)
      BY <1>2, <2>2, ToolNames DEF Evidence, VerifyRead, Fits
    <3> QED
      BY <2>1, <3>1, SoundVerified
  <2>3. CASE ~(c.result.kind = "content" /\ c.result.content \in {"other", "expected"}
               /\ (c.expects # "none" => c.result.content = "expected"))
    <3>1. look # "expected"
      BY <1>2, <2>3 DEF Fits, Comparing
    <3> QED
      BY <1>m, <2>1, <2>3, <3>1, SoundRefused DEF VerifyRead
  <2> QED
    BY <2>2, <2>3
<1>3. CASE tool \in {"github.create_file", "github.get_file"}
  <2>1. see = found /\ Verify(c, found) = VerifyInRepository(found)
    BY <1>0, <1>3, ToolNames DEF LooksOutside, Verify
  <2>2. CASE found = "absent"
    BY <1>e, <2>1, <2>2, SoundRefused DEF VerifyInRepository
  <2>3. CASE found # "absent"
    <3>1. Evidence(c, found) /\ VerifyInRepository(found) = Verified(100)
      BY <1>3, <2>3, ToolNames DEF Evidence, VerifyInRepository
    <3> QED
      BY <2>1, <3>1, SoundVerified
  <2> QED
    BY <2>2, <2>3
<1>4. CASE tool = "github.create_pull_request"
  <2>1. Verify(c, found) = VerifyPullRequest(c, found)
    BY <1>0, <1>4, ToolNames DEF Verify
  <2>2. CASE ~Numbered(c)
    <3>1. see = look /\ look # "expected"
      BY <1>0, <1>4, <2>2, ToolNames DEF LooksOutside, Fits, Comparing
    <3> QED
      BY <1>e, <2>1, <2>2, <3>1, SoundRefused DEF VerifyPullRequest
  <2>3. CASE Numbered(c)
    <3>1. see = found
      BY <1>0, <1>4, <2>3 DEF LooksOutside
    <3>2. CASE found \in {"absent", "other"}
      BY <1>e, <1>m, <2>1, <2>3, <3>1, <3>2, SoundRefused DEF VerifyPullRequest
    <3>3. CASE found \in {"expected", "empty"}
      <4>1. Evidence(c, found) /\ VerifyPullRequest(c, found) = Verified(100)
        BY <1>4, <2>3, <3>3, ToolNames DEF Evidence, VerifyPullRequest
      <4> QED
        BY <2>1, <3>1, <4>1, SoundVerified
    <3> QED
      BY <3>2, <3>3 DEF Outside
  <2> QED
    BY <2>2, <2>3
<1> QED
  BY <1>1, <1>2, <1>3, <1>4, ToolNames

\* The verifiers of the browser, which believe what the executor has compared.
LEMMA SoundBrowser ==
  ASSUME NEW c \in Claim, NEW look \in Outside, Fits(c, look), tool \in BrowserTool
  PROVE  Sound(c, VerifyBrowser(c), look)
<1>0. /\ c.tool = tool /\ c.details \in Details \cup {None} /\ c.error \in Message
      /\ c.result \in Result /\ c.result.text \in Message /\ c.result.is_error \in BOOLEAN
      /\ c.result.shown \in Ternary
      /\ {0, 90, 95, 100} \subseteq Confidence /\ "other" \in Message
  BY DEF Fits, Claim, Result, Confidence, Message
<1>1. /\ FailureMessage(c) \in Message
      /\ FailureMessage(c) = Blank => c.error = Blank
  <2>1. ResultError(c.result) \in Message
    BY <1>0, TextTypes DEF ResultError
  <2>2. c.details # None => c.details.message \in Message
    BY <1>0 DEF Details
  <2> QED
    BY <1>0, <2>1, <2>2, TextTypes DEF FailureMessage
<1>2. CASE ToolFailed(c)
  <2> DEFINE d == IF c.details = None THEN ErrorDetails("no", FailureMessage(c)) ELSE c.details
             v == ToolFailure(c)
  <2>1. d \in Details /\ (c.result.is_error => d.retryable = "no")
    BY <1>0, <1>1, ErrorDetailsType DEF Ternary, Fits
  <2>2. /\ v \in Verification /\ ~v.verified /\ ~v.judged /\ v.outcome = "execution_failed"
        /\ ~RaisedWithMessage(c) /\ c.result.is_error => v.details = d
    <3>1. FirstText(FailureMessage(c), "other") \in Message
      BY <1>0, <1>1, TextTypes
    <3>2. CASE ~RaisedWithMessage(c) /\ c.result.is_error
      <4>1. v = ExecutionFailed(100, d, FirstText(FailureMessage(c), "other"))
        BY <3>2 DEF ToolFailure
      <4> HIDE DEF d, v
      <4> QED
        BY <1>0, <2>1, <3>1, <4>1, Verdicts
    <3>3. CASE ~(~RaisedWithMessage(c) /\ c.result.is_error)
      <4>1. PICK k \in Confidence : v = ExecutionFailed(k, c.details, FailureMessage(c))
        BY <1>0, <3>3 DEF ToolFailure
      <4> HIDE DEF d, v
      <4> QED
        BY <1>0, <1>1, <3>3, <4>1, Verdicts
    <3> QED
      BY <3>2, <3>3
  <2>3. ~NeedsJudge(v)
    <3> HIDE DEF v
    <3> QED BY <2>2 DEF NeedsJudge
  <2>4. ASSUME look = "expected" PROVE ~Retryable(c, v)
    <3>1. c.result.shown = "yes" /\ c.result.kind = "dict"
      BY <2>4, ToolNames DEF Fits, FilesystemTool, BrowserTool
    <3>2. c.result.is_error /\ ~RaisedWithMessage(c)
      BY <1>2, <3>1 DEF ToolFailed, SaysFailed, RaisedWithMessage
    <3>3. v.details = d /\ d.retryable = "no" /\ d # None
      BY <2>1, <2>2, <3>2, NoneIsNoRecord
    <3>4. c.details # None => c.details.retryable = "no"
      BY <3>2 DEF Fits
    <3> HIDE DEF v, d
    <3> QED
      BY <3>3, <3>4 DEF Retryable, SaysRetryable
  <2>5. VerifyBrowser(c) = v
    BY <1>2 DEF VerifyBrowser
  <2> HIDE DEF v
  <2> QED
    BY <2>2, <2>3, <2>4, <2>5 DEF Sound, Settles
<1>3. CASE ~ToolFailed(c)
  <2>1. Doubtful(c)
    BY <1>1, <1>3 DEF ToolFailed, RaisedWithMessage, Doubtful, Fits
  <2>2. c.result.shown = "no" => c.result.text = Blank
    BY <1>1, <1>3 DEF ToolFailed, SaysFailed, Fits
  <2>3. ~c.result.is_error
    BY <1>3 DEF ToolFailed
  <2>r. ASSUME look # "expected"
        PROVE  Sound(c, Missing(0), look) /\ Sound(c, Inconclusive, look)
    BY <1>0, <2>1, <2>r, Verdicts, SoundRefused
  <2>v. ASSUME NEW k \in {90, 95}, look # "expected", Evidence(c, look)
        PROVE  Sound(c, Verified(k), look)
    BY <1>0, <2>v, Verdicts DEF Sound, NeedsJudge
  <2>f. ASSUME tool \in Comparing, c.expects # "none", Found(c)
        PROVE  Evidence(c, look)
    <3>1. look = "expected" \/ Silent(c)
      BY <1>0, <2>2, <2>f DEF Found, Echoed, Silent, Fits, Ternary
    <3> QED
      BY <2>3, <2>f, <3>1, ToolNames DEF Evidence, Comparing
  <2>n. ASSUME tool \in Comparing, c.expects = "none"
        PROVE  look # "expected" /\ Evidence(c, look)
    BY <2>3, <2>n, ToolNames DEF Evidence, Comparing, Fits
  <2>4. CASE tool = "browser.navigate"
    <3>1. VerifyBrowser(c) = VerifyNavigate(c) /\ tool \in Comparing
      BY <1>0, <1>3, <2>4 DEF VerifyBrowser, Comparing
    <3>2. ~Found(c) => look # "expected"
      BY <2>4 DEF Found, Fits
    <3>3. CASE c.expects # "none"
      BY <2>f, <2>r, <3>1, <3>2, <3>3, SoundVerified DEF VerifyNavigate
    <3>4. CASE c.expects = "none"
      BY <2>n, <2>r, <2>v, <3>1, <3>4 DEF VerifyNavigate
    <3> QED
      BY <3>3, <3>4
  <2>5. CASE tool = "browser.click"
    <3>1. VerifyBrowser(c) = VerifyClick(c) /\ tool \in Comparing
      BY <1>0, <1>3, <2>5 DEF VerifyBrowser, Comparing
    <3>2. ~Found(c) => look # "expected"
      BY <2>5 DEF Found, Fits
    <3>3. CASE c.expects # "none"
      BY <2>f, <2>r, <3>1, <3>2, <3>3, SoundVerified DEF VerifyClick
    <3>4. CASE c.expects = "none"
      BY <2>n, <2>r, <2>v, <3>1, <3>4 DEF VerifyClick
    <3> QED
      BY <3>3, <3>4
  <2>6. CASE tool = "browser.fill"
    <3>1. VerifyBrowser(c) = VerifyFill(c)
      BY <1>0, <1>3, <2>6 DEF VerifyBrowser
    <3>2. look # "expected"
      BY <2>6 DEF Fits, Comparing
    <3>3. c.result.done = "yes" => Evidence(c, look)
      BY <2>6, ToolNames DEF Evidence
    <3> QED
      BY <2>r, <3>1, <3>2, <3>3, SoundVerified DEF VerifyFill
  <2> QED
    BY <2>4, <2>5, <2>6, ToolNames
<1> QED
  BY <1>2, <1>3

-----------------------------------------------------------------------------
(* The inductive invariant.                                                 *)

\* A claim that says itself that it is final.
Final(c) == c # None /\ c.details # None /\ c.details.retryable = "no"

\* Before a call: nothing that is final or has been seen is tried again.
AtExecute ==
  node = "execute" => ~Final(claim) /\ (THRESHOLD <= 100 => seen # "expected")

\* After it: the claim fits what was seen ...
AtVerify == node = "verify" => Fits(claim, seen)

\* ... only doubt is judged ...
AtJudge ==
  /\ node = "judge" => Doubtful(claim) /\ seen # "expected"
  /\ node \in {"decide", "verified", "escalated"} /\ result.judged => Doubtful(claim)

\* ... and the decision has what it needs.
AtDecide ==
  /\ node \in {"decide", "verified"} /\ result.verified /\ ~result.judged => Evidence(claim, seen)
  /\ node = "verified" => result.verified
  /\ node = "decide" /\ THRESHOLD <= 100 /\ seen = "expected" => Settles(claim, result)
  /\ node \in {"judge", "decide", "verified", "escalated"} => result # None

IInv == TypeOK /\ AtExecute /\ AtVerify /\ AtJudge /\ AtDecide

\* A task starts unattempted.
LEMMA InitIInv == Init => IInv
<1>1. \A t \in Tool : Plan(t) \subseteq Expectation
  BY DEF Plan, Expectation, Tool, BrowserTool, FilesystemTool, GithubTool
<1> QED
  BY <1>1, SettingsAreNat DEF Init, IInv, TypeOK, AtExecute, AtVerify, AtJudge, AtDecide, Node,
     Outside, Final

\* An attempt is executed: what it claims is what it saw.
LEMMA ExecuteKeeps == ASSUME IInv, Execute PROVE IInv'
<1>1. PICK c \in Claim, now \in Outside, look \in Outside : Claims(c, now, look) /\ Fits(c, look)
  BY ExecuteClaims DEF IInv
<1>2. /\ node = "execute" /\ node' = "verify" /\ claim' = c /\ outside' = now /\ seen' = look
      /\ tool' = tool /\ planned' = planned /\ retry_count' = retry_count /\ result' = result
  BY <1>1 DEF Claims
<1>3. TypeOK'
  BY <1>2, NoneIsNoRecord DEF IInv, TypeOK, Node
<1>4. AtVerify'
  BY <1>1, <1>2 DEF AtVerify, Fits
<1> QED
  BY <1>2, <1>3, <1>4 DEF IInv, AtExecute, AtJudge, AtDecide

\* What a verifier that raised leaves of what was seen.
LEMMA SoundFailure ==
  ASSUME NEW c \in Claim, NEW look \in Outside, Fits(c, look), NEW f \in VerifierFailure, tool \in Tool,
         LooksOutside(c) \/ (tool = "filesystem.read_file" /\ ~f.mcp /\ f.message = "other")
  PROVE  Sound(c, VerifierFailed(f), look)
<1> DEFINE v == VerifierFailed(f)
<1>1. /\ v \in Verification /\ ~v.verified /\ ~v.judged /\ ~NeedsJudge(v)
      /\ v.details \in Details
      /\ ~f.mcp /\ f.message = "other" => v.details.retryable = "no"
  BY CallFailureType, VerifierFailedType
<1>2. ASSUME look = "expected" PROVE ~Retryable(c, v)
  <2>1. tool \notin Comparing /\ (tool = "filesystem.read_file" => ~LooksOutside(c))
    BY ToolNames DEF Fits, LooksOutside, Comparing, Numbered
  <2>2. tool = "filesystem.read_file" /\ c.result.kind = "content"
    BY <1>2, <2>1 DEF Fits
  <2>3. c.details = None /\ v.details.retryable = "no"
    BY <1>1, <2>1, <2>2 DEF Fits
  <2>4. v.details # None => SaysRetryable(v.details)
    BY <2>3 DEF SaysRetryable
  <2>5. v.details # None
    BY <1>1, NoneIsNoRecord
  <2> HIDE DEF v
  <2> QED
    BY <2>3, <2>4, <2>5 DEF Retryable, SaysRetryable
<1> HIDE DEF v
<1> QED
  BY <1>1, <1>2 DEF Sound, Settles, v

\* The verifier looks again.
LEMMA CheckKeeps == ASSUME IInv, Check PROVE IInv'
<1>1. /\ claim \in Claim /\ tool \in Tool /\ seen \in Outside /\ outside \in Outside
      /\ Fits(claim, seen)
  BY DEF Check, IInv, TypeOK, AtVerify
<1>2. PICK v \in Verification, look \in Outside : Concludes(v, look) /\ Sound(claim, v, look)
  <2>0. \A v, look : Sound(claim, v, look) => v \in Verification
    BY DEF Sound
  <2>1. CASE ~LooksOutside(claim) /\ Concludes(Verify(claim, outside), seen)
    <3>1. CASE tool \in BrowserTool
      <4>1. claim.tool \in BrowserTool
        BY <1>1, <3>1 DEF Fits
      <4>2. Verify(claim, outside) = VerifyBrowser(claim)
        BY <4>1, ToolNames DEF Verify
      <4> QED
        BY <1>1, <2>0, <2>1, <3>1, <4>2, SoundBrowser
    <3>2. CASE tool \notin BrowserTool
      <4>1. seen = IF LooksOutside(claim) THEN outside ELSE seen
        BY <2>1
      <4>2. Sound(claim, Verify(claim, outside), seen)
        BY <1>1, <3>2, <4>1, SoundOutside
      <4> QED
        BY <1>1, <2>0, <2>1, <4>2
    <3> QED
      BY <3>1, <3>2
  <2>2. ASSUME LooksOutside(claim), NEW found \in MayFind(claim)
        PROVE  Sound(claim, Verify(claim, found), found) /\ found \in Outside
    <3>1. found \in Outside
      BY <1>1, <2>2 DEF MayFind, Outside
    <3>2. claim.tool = tool
      BY <1>1 DEF Fits
    <3>3. tool \in Tool \ BrowserTool
      BY <1>1, <2>2, <3>2, ToolNames DEF LooksOutside
    <3>4. found = IF LooksOutside(claim) THEN found ELSE seen
      BY <2>2
    <3> QED
      BY <1>1, <3>1, <3>3, <3>4, SoundOutside
  <2>3. ASSUME NEW f \in VerifierFailure,
               LooksOutside(claim) \/ (tool = "filesystem.read_file" /\ ~f.mcp /\ f.message = "other")
        PROVE  Sound(claim, VerifierFailed(f), seen)
    BY <1>1, <2>3, SoundFailure
  <2>4. CASE LooksOutside(claim) /\ \E found \in MayFind(claim) : Concludes(Verify(claim, found), found)
    BY <2>0, <2>2, <2>4
  <2>5. CASE \E f \in VerifierFailure :
               /\ LooksOutside(claim) \/ (tool = "filesystem.read_file" /\ ~f.mcp /\ f.message = "other")
               /\ Concludes(VerifierFailed(f), seen)
    <3>1. PICK f \in VerifierFailure :
            /\ LooksOutside(claim) \/ (tool = "filesystem.read_file" /\ ~f.mcp /\ f.message = "other")
            /\ Concludes(VerifierFailed(f), seen)
      BY <2>5
    <3>2. Sound(claim, VerifierFailed(f), seen)
      BY <2>3, <3>1
    <3> QED
      BY <1>1, <2>0, <3>1, <3>2
  <2> QED
    BY <2>1, <2>4, <2>5 DEF Check
<1>3. /\ node' = IF NeedsJudge(v) THEN "judge" ELSE "decide"
      /\ result' = v /\ seen' = look
      /\ tool' = tool /\ planned' = planned /\ outside' = outside /\ retry_count' = retry_count
      /\ claim' = claim
  BY <1>2 DEF Concludes
<1>4. TypeOK'
  BY <1>1, <1>2, <1>3, NoneIsNoRecord DEF IInv, TypeOK, Node, Sound
<1>5. AtJudge'
  BY <1>2, <1>3 DEF AtJudge, Sound, Doubtful
<1>6. AtDecide'
  BY <1>1, <1>2, <1>3, NoneIsNoRecord DEF AtDecide, Sound, Evidence, Silent
<1> QED
  BY <1>3, <1>4, <1>5, <1>6 DEF IInv, AtExecute, AtVerify

\* The model judges, or does not answer.
LEMMA JudgeKeeps == ASSUME IInv, Judge PROVE IInv'
<1>1. /\ result' \in Verification /\ result'.judged
      /\ node = "judge" /\ node' = "decide"
      /\ tool' = tool /\ planned' = planned /\ outside' = outside /\ retry_count' = retry_count
      /\ claim' = claim /\ seen' = seen
  <2>1. ASSUME NEW b \in BOOLEAN, NEW k \in {0, 50, 70, 100},
               NEW wording \in {"timeout", "element not found", "other"},
               result' = Judgement(b, k, wording)
        PROVE  result' \in Verification /\ result'.judged
    <3>1. k \in Confidence /\ {wording, "other"} \in SUBSET Message
      BY DEF Confidence, Message
    <3>2. (IF b THEN "verified" ELSE "inconclusive") \in Outcome
      BY DEF Outcome
    <3>3. Judgement(b, k, wording) \in Verification /\ Judgement(b, k, wording).judged
      BY <3>1, <3>2 DEF Judgement, Verification
    <3> QED
      BY <2>1, <3>3, Zenon
  <2>2. ASSUME NEW retryable \in BOOLEAN, result' = NoJudgement(retryable)
        PROVE  result' \in Verification /\ result'.judged
    <3>1. NoJudgement(retryable) \in Verification /\ NoJudgement(retryable).judged
      BY NoJudgementType
    <3> QED
      BY <2>2, <3>1, Zenon
  <2>3. result' \in Verification /\ result'.judged
    <3>1. \/ \E b \in BOOLEAN, k \in {0, 50, 70, 100},
                wording \in {"timeout", "element not found", "other"} :
             result' = Judgement(b, k, wording)
          \/ \E retryable \in BOOLEAN : result' = NoJudgement(retryable)
      BY Zenon DEF Judge
    <3>2. CASE \E b \in BOOLEAN, k \in {0, 50, 70, 100},
                  wording \in {"timeout", "element not found", "other"} :
                 result' = Judgement(b, k, wording)
      <4>1. PICK b \in BOOLEAN, k \in {0, 50, 70, 100},
                 wording \in {"timeout", "element not found", "other"} :
                   result' = Judgement(b, k, wording)
        BY <3>2, Zenon
      <4> QED
        BY <2>1, <4>1, ZenonT(40)
    <3>3. CASE \E retryable \in BOOLEAN : result' = NoJudgement(retryable)
      BY <2>2, <3>3
    <3> QED
      BY <3>1, <3>2, <3>3
  <2>4. /\ node = "judge" /\ node' = "decide"
        /\ UNCHANGED <<tool, planned, outside, seen, retry_count, claim>>
    BY DEF Judge
  <2> QED
    BY <2>3, <2>4
<1>2. TypeOK'
  BY <1>1, NoneIsNoRecord DEF IInv, TypeOK, Node
<1>3. AtJudge'
  BY <1>1 DEF IInv, AtJudge, Doubtful
<1>4. AtDecide'
  BY <1>1, NoneIsNoRecord DEF IInv, AtDecide, AtJudge
<1> QED
  BY <1>1, <1>2, <1>3, <1>4 DEF IInv, AtExecute, AtVerify

\* The claim's own classification comes first.
LEMMA FinalIsNotRetryable ==
  ASSUME NEW c, NEW v, Final(c)
  PROVE  ~Retryable(c, v)
  BY DEF Final, Retryable, SaysRetryable

\* The attempt is decided on.
LEMMA DecideKeeps == ASSUME IInv, Decide PROVE IInv'
<1>1. /\ node = "decide"
      /\ node' = CASE Decision(claim, result, retry_count) = "pick_task" -> "verified"
                   [] Decision(claim, result, retry_count) = "execute" -> "execute"
                   [] Decision(claim, result, retry_count) = "escalate" -> "escalated"
      /\ retry_count' = IF node' = "execute" THEN retry_count + 1 ELSE retry_count
      /\ tool' = tool /\ planned' = planned /\ outside' = outside /\ seen' = seen
      /\ claim' = claim /\ result' = result
  BY DEF Decide
<1>2. \/ node' = "verified" /\ Accepted(result)
      \/ /\ node' = "execute" /\ ~Accepted(result) /\ Retryable(claim, result)
         /\ retry_count < MAX_RETRIES
      \/ node' = "escalated"
  BY <1>1 DEF Decision
<1>3. TypeOK'
  <2>0. retry_count \in 0..MAX_RETRIES
    BY DEF IInv, TypeOK
  <2>1. node' \in Node
    BY <1>2 DEF Node
  <2>c. retry_count' \in 0..MAX_RETRIES
    <3>1. retry_count' = IF node' = "execute" THEN retry_count + 1 ELSE retry_count
      BY <1>1
    <3>2. CASE node' = "execute"
      <4>1. retry_count < MAX_RETRIES
        BY <1>2, <3>2
      <4> QED
        BY <2>0, <3>1, <3>2, <4>1, SettingsAreNat
    <3> QED
      BY <2>0, <3>1, <3>2
  <2>2. claim # None
    BY <1>1 DEF IInv, TypeOK
  <2> QED
    BY <1>1, <2>1, <2>2, <2>c DEF IInv, TypeOK
<1>4. AtExecute'
  <2> SUFFICES ASSUME node' = "execute" PROVE ~Final(claim) /\ (THRESHOLD <= 100 => seen # "expected")
    BY <1>1 DEF AtExecute, Final
  <2> QED
    BY <1>1, <1>2, FinalIsNotRetryable DEF IInv, AtDecide, Settles
<1>5. AtJudge'
  BY <1>1, <1>2 DEF IInv, AtJudge, Doubtful
<1>6. AtDecide'
  BY <1>1, <1>2 DEF IInv, AtDecide, Accepted, Evidence, Silent
<1> QED
  BY <1>1, <1>2, <1>3, <1>4, <1>5, <1>6 DEF IInv, AtVerify

\* Somebody else interferes.
LEMMA OthersKeep == ASSUME IInv, Interfere \/ UNCHANGED vars PROVE IInv'
<1>1. /\ outside' \in Outside
      /\ tool' = tool /\ planned' = planned /\ seen' = seen /\ node' = node
      /\ retry_count' = retry_count /\ claim' = claim /\ result' = result
  BY DEF Interfere, vars, IInv, TypeOK
<1>2. TypeOK'
  BY <1>1 DEF IInv, TypeOK
<1>3. AtExecute' /\ AtVerify'
  BY <1>1 DEF IInv, AtExecute, AtVerify, Final, Fits
<1>4. AtJudge'
  BY <1>1 DEF IInv, AtJudge, Doubtful
<1>5. Evidence(claim, seen)' <=> Evidence(claim, seen)
  BY <1>1 DEF Evidence, Silent
<1>6. Settles(claim, result)' <=> Settles(claim, result)
  BY <1>1
<1>7. AtDecide'
  BY <1>1, <1>5, <1>6 DEF IInv, AtDecide
<1> QED
  BY <1>2, <1>3, <1>4, <1>7 DEF IInv

\* Every step keeps the invariant.
LEMMA NextIInv == IInv /\ [Next]_vars => IInv'
  BY ExecuteKeeps, CheckKeeps, JudgeKeeps, DecideKeeps, OthersKeep DEF Next, Step, Done

\* The invariant holds in every reachable state.
LEMMA Inductive == Spec => []IInv
  BY InitIInv, NextIInv, PTL DEF Spec

\* Types: the claim and the verification result of an attempt are what the nodes expect.
THEOREM TypeCorrect == Spec => []TypeOK
<1>1. IInv => TypeOK
  BY DEF IInv
<1> QED
  BY <1>1, Inductive, PTL

\* Whatever tools answer and others change: a task verified without the judge rests on
\* something seen in the attempt that is decided on.
THEOREM VerifiedRestsOnEvidence == Spec => []VerifiedHasEvidence
<1>1. IInv => VerifiedHasEvidence
  BY DEF IInv, AtDecide, VerifiedHasEvidence, Evidence
<1> QED
  BY <1>1, Inductive, PTL

\* A model never settles what the deterministic checks settled.
THEOREM JudgeOnlyDoubt == Spec => []OnlyDoubtIsJudged
<1>1. IInv => OnlyDoubtIsJudged
  BY DEF IInv, AtJudge, OnlyDoubtIsJudged, Doubtful
<1> QED
  BY <1>1, Inductive, PTL

\* No tool is called again after a failure the claim itself classifies as final.
THEOREM NoRetryOfFinal == Spec => FinalFailuresAreNotRetried
<1>1. IInv => (claim # None /\ claim.details # None /\ claim.details.retryable = "no" => ~Called)
  BY DEF IInv, AtExecute, Final, Called
<1> QED
  BY <1>1, Inductive, PTL DEF FinalFailuresAreNotRetried

\* What an attempt has seen to have happened is not done again, for every threshold that a
\* confidence can reach.
THEOREM NoRepetition == ASSUME THRESHOLD <= 100 PROVE Spec => SeenIsNotRepeated
<1>1. IInv => (Called => seen # "expected")
  BY DEF IInv, AtExecute, Called
<1> QED
  BY <1>1, Inductive, PTL DEF SeenIsNotRepeated

=============================================================================
