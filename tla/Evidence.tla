------------------------------- MODULE Evidence -------------------------------
(***************************************************************************)
(* What a tool call leaves behind, and what the verifiers, the judge and    *)
(* the retry rule make of it: the claim of the executor, the verification   *)
(* result, the routing to the judge, and the decision.                      *)
(*                                                                          *)
(* Texts are reduced to the marker they contain, since all rules look for   *)
(* markers; an expectation to whether there is one; confidences are         *)
(* percentages.                                                             *)
(***************************************************************************)
EXTENDS Naturals, FiniteSets

CONSTANTS
  None,          \* Python None
  MAX_RETRIES,   \* settings.max_retries
  THRESHOLD      \* settings.verification_confidence_threshold, in percent

ASSUME SettingsAreNat == MAX_RETRIES \in Nat /\ THRESHOLD \in Nat
ASSUME NoneIsNoMessage == None \notin {"", "yes", "no", "unsaid"}

-----------------------------------------------------------------------------
(* Texts.                                                                   *)

Blank == ""
Message == {Blank, "timeout", "timed out", "429", "element not found", "other"}

\* The texts each rule recognises.  "timed out" stands for "broken pipe" and the other
\* markers only the first two know; "429" is also the text that has digits.
MCPRecoverable == {"timeout", "timed out"}
VerifierRecoverable == {"timeout", "timed out", "429"}
RECOVERABLE_FAILURE_MARKERS == {"timeout", "429"}
UNRECOVERABLE_FAILURE_MARKERS == {"element not found"}

FirstText(a, b) == IF a # Blank THEN a ELSE b

-----------------------------------------------------------------------------
(* Tools, what they answer, and what the executor claims.                   *)

BrowserTool == {"browser.navigate", "browser.fill", "browser.click"}
FilesystemTool == {"filesystem.write_file", "filesystem.read_file"}
GithubTool == {"github.create_file", "github.get_file", "github.create_pull_request"}
Tool == BrowserTool \cup FilesystemTool \cup GithubTool

\* What the file, the page or the pull request a task is about looks like.  Of a pull
\* request, "expected" is open, "other" is closed and "empty" does not say which.
Outside == {"absent", "empty", "other", "expected"}

\* The expectation in the parameters.  One that JSON escapes is not found in its own echo.
Expectation == {"none", "plain", "escaped"}

Ternary == {"yes", "no", "unsaid"}
YesNo(b) == IF b THEN "yes" ELSE "no"

\* GitHub tools get the parameters they have, and an expectation is none of them.
Delivered(tool, expects) == IF tool \in GithubTool THEN "none" ELSE expects

\* The result of a call: nothing, the content of a file, or a dict in which `shown` stands
\* for success and matched_text (the executor writes both), `done` for clicked, filled or
\* the number of a pull request (the server writes them), `text` for the first content item.
Result == [kind: {"nothing", "content", "dict"}, is_error: BOOLEAN, shown: Ternary,
           done: Ternary, text: Message, content: Outside]
NoResult == [kind |-> "nothing", is_error |-> FALSE, shown |-> "unsaid", done |-> "unsaid",
             text |-> Blank, content |-> "absent"]
FileContent(c) == [NoResult EXCEPT !.kind = "content", !.content = c]
Answer(is_error, done, text) ==
  [NoResult EXCEPT !.kind = "dict", !.is_error = is_error, !.done = done, !.text = text]

Details == [retryable: Ternary, message: Message, verifier: BOOLEAN]
ErrorDetails(retryable, message) ==
  [retryable |-> retryable, message |-> FirstText(message, "other"), verifier |-> FALSE]

Claim == [tool: Tool, expects: Expectation, result: Result, claimed_success: BOOLEAN,
          error: Message, details: Details \cup {None}]

\* execute: what of a result decides claimed_success.
Claimed(r) ==
  IF r.shown # "unsaid" THEN r.shown = "yes"
  ELSE IF r.done # "unsaid" THEN r.done = "yes"
  ELSE ~r.is_error

\* normalize_tool_result: an error is not retryable and always has a message.
ResultError(r) == IF r.is_error THEN FirstText(r.text, "other") ELSE Blank

ClaimOf(tool, expects, r) ==
  LET claimed == r.kind # "dict" \/ Claimed(r)
      error == IF claimed THEN Blank ELSE FirstText(r.text, ResultError(r))
  IN [tool |-> tool, expects |-> expects, result |-> r, claimed_success |-> claimed,
      error |-> error,
      details |-> IF claimed THEN None
                  ELSE IF r.is_error THEN ErrorDetails("no", ResultError(r))
                  ELSE IF error # Blank THEN ErrorDetails("unsaid", error)
                  ELSE None]

\* Something raised: a call to an MCP server, classified by its text, or anything else.
Failure == [mcp: BOOLEAN, message: Message]
FailureDetails(f) ==
  IF f.mcp THEN [retryable |-> YesNo(f.message \in MCPRecoverable), message |-> f.message,
                 verifier |-> FALSE]
           ELSE ErrorDetails("no", f.message)

\* A call that is cut off after 30 seconds raises TimeoutError, whose text is empty.
TimedOut == [mcp |-> TRUE, message |-> Blank]

ClaimOfFailure(tool, expects, f) ==
  [tool |-> tool, expects |-> expects, result |-> NoResult, claimed_success |-> FALSE,
   error |-> FailureDetails(f).message, details |-> FailureDetails(f)]

-----------------------------------------------------------------------------
(* Verification results.                                                    *)

Outcome == {"verified", "execution_failed", "evidence_missing", "inconclusive"}
Confidence == {0, 50, 70, 90, 95, 100}
\* `texts` are the evidence, the failure indicators and the reasoning.
Verification == [verified: BOOLEAN, confidence: Confidence, outcome: Outcome,
                 details: Details \cup {None}, texts: SUBSET Message, judged: BOOLEAN]

ASSUME NoneIsNoRecord == None \notin Details /\ None \notin Claim /\ None \notin Verification

Verdict(outcome, confidence, details, texts) ==
  [verified |-> outcome = "verified", confidence |-> confidence, outcome |-> outcome,
   details |-> details, texts |-> texts, judged |-> FALSE]
Verified(confidence) == Verdict("verified", confidence, None, {"other"})
Missing(confidence) == Verdict("evidence_missing", confidence, None, {"other"})
Inconclusive == Verdict("inconclusive", 0, None, {"other"})
ExecutionFailed(confidence, details, text) ==
  Verdict("execution_failed", confidence, details, {text, "other"})

\* coerce_verifier_exception and build_verifier_failure_payload: the verifier raised.
VerifierFailed(f) ==
  LET retryable == IF f.mcp THEN f.message \in MCPRecoverable
                            ELSE f.message \in VerifierRecoverable
  IN Verdict("inconclusive", 0,
             [retryable |-> YesNo(retryable), message |-> f.message, verifier |-> TRUE],
             {f.message, "other"})

-----------------------------------------------------------------------------
(* The browser verifiers look at nothing but the claim.                     *)

FailureMessage(c) ==
  FirstText(IF c.details = None THEN Blank ELSE c.details.message,
            FirstText(ResultError(c.result), c.error))

\* Mutant of ToolFailed: what the tool says of itself is believed.
ToolSaidItFailed(c) == c.result.kind = "nothing" /\ FailureMessage(c) # Blank

\* The three cases of _tool_execution_failed.
RaisedWithMessage(c) ==
  c.result.kind = "nothing" /\ ~c.claimed_success /\ FailureMessage(c) # Blank
SaysFailed(c) == c.result.shown = "no" /\ FailureMessage(c) # Blank
ToolFailed(c) == RaisedWithMessage(c) \/ c.result.is_error \/ SaysFailed(c)

ToolFailure(c) ==
  IF ~RaisedWithMessage(c) /\ c.result.is_error
  THEN ExecutionFailed(100, IF c.details = None THEN ErrorDetails("no", FailureMessage(c))
                                                ELSE c.details,
                       FirstText(FailureMessage(c), "other"))
  ELSE ExecutionFailed(IF RaisedWithMessage(c) THEN 100 ELSE 95, c.details, FailureMessage(c))

\* The text the expectation is looked for in includes the structured result, in which the
\* executor has written the expectation.
Echoed(c) == c.expects = "plain" /\ c.result.shown # "unsaid"
Found(c) == c.result.shown = "yes" \/ Echoed(c)

VerifyNavigate(c) ==
  IF c.expects # "none" THEN IF Found(c) THEN Verified(100) ELSE Missing(0)
  ELSE IF c.result.shown = "yes" \/ c.claimed_success THEN Verified(95)
  ELSE Inconclusive

VerifyFill(c) == IF c.result.done = "yes" THEN Verified(100) ELSE Inconclusive

\* Mutant of VerifyClick: only the click counts, not where it led.
VerifyClicked(c) ==
  IF c.result.done = "yes" THEN Verified(90) ELSE Inconclusive

VerifyClick(c) ==
  IF c.expects # "none" /\ Found(c) THEN Verified(100)
  ELSE IF c.result.done = "yes" \/ c.result.shown = "yes"
       THEN IF c.expects # "none" THEN Missing(0) ELSE Verified(90)
  ELSE Inconclusive

VerifyBrowser(c) ==
  IF ToolFailed(c) THEN ToolFailure(c)
  ELSE CASE c.tool = "browser.navigate" -> VerifyNavigate(c)
         [] c.tool = "browser.fill" -> VerifyFill(c)
         [] c.tool = "browser.click" -> VerifyClick(c)

-----------------------------------------------------------------------------
(* The other verifiers look at the file or the pull request themselves.     *)

\* Mutant of VerifyWrite: a file that is there is taken for the file that was asked for.
VerifyWritten(c, found) ==
  IF found = "absent" THEN ExecutionFailed(100, None, "other")
  ELSE IF found = "empty" THEN Missing(100) ELSE Verified(100)

VerifyWrite(c, found) ==
  IF found = "absent" THEN ExecutionFailed(100, None, "other")
  ELSE IF found = "expected" \/ (found = "other" /\ c.expects = "none") THEN Verified(100)
  ELSE Missing(100)

\* What was read is in the claim.
VerifyRead(c) ==
  IF c.result.kind = "content" /\ c.result.content \in {"other", "expected"}
     /\ (c.expects # "none" => c.result.content = "expected")
  THEN Verified(100) ELSE Missing(95)

\* create_file and get_file ask whether the file is there: an expected content never arrives.
VerifyInRepository(found) ==
  IF found = "absent" THEN ExecutionFailed(100, None, "other") ELSE Verified(100)

\* The number of a pull request is the one the server gives, or the digits of its text.
Numbered(c) == c.result.kind = "dict" /\ (c.result.done = "yes" \/ c.result.text = "429")

VerifyPullRequest(c, found) ==
  IF ~Numbered(c) \/ found = "absent" THEN ExecutionFailed(100, None, "other")
  ELSE IF found = "other" THEN Missing(100) ELSE Verified(100)

\* The registry: which verifiers call a server to look, and what they conclude.
LooksOutside(c) ==
  \/ c.tool \in {"filesystem.write_file", "github.create_file", "github.get_file"}
  \/ c.tool = "github.create_pull_request" /\ Numbered(c)

Verify(c, found) ==
  CASE c.tool \in BrowserTool -> VerifyBrowser(c)
    [] c.tool = "filesystem.write_file" -> VerifyWrite(c, found)
    [] c.tool = "filesystem.read_file" -> VerifyRead(c)
    [] c.tool \in {"github.create_file", "github.get_file"} -> VerifyInRepository(found)
    [] c.tool = "github.create_pull_request" -> VerifyPullRequest(c, found)

-----------------------------------------------------------------------------
(* The judge, and the decision.                                             *)

\* Mutant of NeedsJudge: whatever was not verified is judged.
JudgeUnverified(v) == ~v.verified

NeedsJudge(v) ==
  /\ v.details # None => ~v.details.verifier
  /\ ~v.verified
  /\ v.outcome \in {"evidence_missing", "inconclusive"}
  /\ v.confidence < 75

\* What evaluate makes of the answer of the model ...
Judgement(verified, confidence, text) ==
  [verified |-> verified, confidence |-> confidence, judged |-> TRUE, details |-> None,
   outcome |-> IF verified THEN "verified" ELSE "inconclusive", texts |-> {text, "other"}]
\* ... and of a model that failed three times, or whose answer is of no use.
NoJudgement(retryable) ==
  [verified |-> FALSE, confidence |-> 0, judged |-> TRUE, outcome |-> "inconclusive",
   details |-> ErrorDetails(YesNo(retryable), "other"), texts |-> {"other"}]

SaysRetryable(details) == details # None /\ details.retryable # "unsaid"

\* Mutant of Retryable: the verification is asked before the claim.
RetryableByResult(c, v) ==
  IF SaysRetryable(v.details) THEN v.details.retryable = "yes"
  ELSE IF SaysRetryable(c.details) THEN c.details.retryable = "yes"
  ELSE (v.texts \cup {c.error}) \cap UNRECOVERABLE_FAILURE_MARKERS = {}

\* classify_retryability: details that say so, the claim's first, else the texts.
Retryable(c, v) ==
  LET texts == v.texts \cup {c.error} IN
  IF SaysRetryable(c.details) THEN c.details.retryable = "yes"
  ELSE IF SaysRetryable(v.details) THEN v.details.retryable = "yes"
  ELSE \/ texts \cap RECOVERABLE_FAILURE_MARKERS # {}
       \/ texts \cap UNRECOVERABLE_FAILURE_MARKERS = {}

Accepted(v) == v.verified /\ v.confidence >= THRESHOLD

Decision(c, v, retry_count) ==
  IF Accepted(v) THEN "pick_task"
  ELSE IF Retryable(c, v) /\ retry_count < MAX_RETRIES THEN "execute"
  ELSE "escalate"
=============================================================================
