----------------------------- MODULE TaskAttempts -----------------------------
(***************************************************************************)
(* The attempts at one task, from its first execution to the decision that *)
(* settles it, in one pass of the orchestration graph.  Evidence says what *)
(* is made of a call; this module says which calls are made, in which      *)
(* order, while the file, the page or the repository the task is about may *)
(* be changed by others.                                                   *)
(***************************************************************************)
EXTENDS Evidence

VARIABLES
  tool,         \* task.tool_name
  planned,      \* the expectation in task.tool_params
  outside,      \* what the task is about, as it is
  seen,         \* ... and as the executor or the verifier saw it in this attempt
  node,         \* the node of the graph the task is at, or how it was settled
  retry_count,  \* task.retry_count
  claim,        \* state["action_claim"]
  result        \* state["verification_result"]

vars == <<tool, planned, outside, seen, node, retry_count, claim, result>>

Node == {"execute", "verify", "judge", "decide", "verified", "escalated"}
Settled == node \in {"verified", "escalated"}

TypeOK ==
  /\ tool \in Tool
  /\ planned \in Expectation
  /\ outside \in Outside /\ seen \in Outside
  /\ node \in Node
  /\ retry_count \in 0..MAX_RETRIES
  /\ claim \in Claim \cup {None}
  /\ result \in Verification \cup {None}
  /\ (claim = None) => (node = "execute" /\ result = None)

\* A plan expects a text of a page or of a file; what it expects of other tools is fixed.
Plan(t) ==
  CASE t \in {"browser.navigate", "browser.click"} -> Expectation
    [] t \in FilesystemTool \cup {"github.get_file"} -> {"none", "plain"}
    [] OTHER -> {"none"}

Init ==
  /\ tool \in Tool
  /\ planned \in Plan(tool)
  /\ outside \in Outside /\ seen = "absent"
  /\ node = "execute"
  /\ retry_count = 0
  /\ claim = None /\ result = None

-----------------------------------------------------------------------------
(* execute.                                                                 *)

\* On a retry the parameters are the planned ones, or what the model made of them.
Expectations ==
  {Delivered(tool, e) : e \in {planned} \cup IF retry_count > 0 THEN Plan(tool) ELSE {}}

\* What an MCP call raises is classified by its text, a call cut off after 30 seconds has
\* none; anything else that raises is final.
CallFailure == [mcp : {TRUE}, message : Message] \cup [mcp : {FALSE}, message : {"other"}]
SessionText == {Blank, "other", "429", "timeout", "element not found"}

Unseen == "absent"

Claims(c, now, look) ==
  /\ node = "execute" /\ node' = "verify"
  /\ claim' = c /\ outside' = now /\ seen' = look
  /\ UNCHANGED <<tool, planned, retry_count, result>>

Raises(e, now) == \E f \in CallFailure : Claims(ClaimOfFailure(tool, e, f), now, Unseen)

\* _call_filesystem: a write truncates the file before it writes, and may fail after that.
WriteFile ==
  /\ tool = "filesystem.write_file"
  /\ \E e \in Expectations :
       \/ Claims(ClaimOf(tool, e, Answer(FALSE, "unsaid", "other")),
                 IF e = "none" THEN "empty" ELSE "expected", Unseen)
       \/ \E now \in {outside, "empty", "other"} :
            Claims(ClaimOfFailure(tool, e, [mcp |-> FALSE, message |-> "other"]), now, Unseen)

\* A file that is not there is asked of the server, which has none or fails: None.
ReadFile ==
  /\ tool = "filesystem.read_file"
  /\ \E e \in Expectations :
       \/ Claims(ClaimOf(tool, e, IF outside = "absent" THEN NoResult ELSE FileContent(outside)),
                 outside, outside)
       \/ Claims(ClaimOfFailure(tool, e, [mcp |-> FALSE, message |-> "other"]), outside, Unseen)

\* _call_github: a call that fails, or is given up, may have had its effect.
CallGithub ==
  /\ tool \in GithubTool
  /\ \E e \in Expectations :
       \/ \E now \in {outside, "expected"} :
            /\ tool = "github.get_file" => now = outside
            /\ Raises(e, now)
       \/ /\ tool = "github.get_file"
          /\ \E r \in {NoResult, Answer(FALSE, "unsaid", "other")} :
               Claims(ClaimOf(tool, e, r), outside, Unseen)
       \/ /\ tool # "github.get_file"
          /\ \E done \in {"yes", "unsaid"}, text \in SessionText :
               /\ done = "yes" => tool = "github.create_pull_request"
               /\ Claims(ClaimOf(tool, e, Answer(FALSE, done, text)), "expected", Unseen)
       \/ /\ tool # "github.get_file"
          /\ \E text \in SessionText :
               Claims(ClaimOf(tool, e, Answer(TRUE, "unsaid", text)), outside, Unseen)

\* What the executor adds to an answer once it has looked for the expected text.
Compared(answer, e, page) ==
  IF e = "none" THEN answer ELSE [answer EXCEPT !.shown = YesNo(page = "expected")]
Look(e, page) == IF e = "none" THEN Unseen ELSE page

BrowserAnswers(dones) ==
  {Answer(b, d, t) : b \in BOOLEAN, d \in dones, t \in SessionText}

Navigate ==
  /\ tool = "browser.navigate"
  /\ \E e \in Expectations, page \in Outside :
       \/ Raises(e, page)
       \/ \E a \in BrowserAnswers({"unsaid"}) :
            /\ a.is_error => page = outside
            /\ Claims(ClaimOf(tool, e, Compared(a, e, page)), page, Look(e, page))

Fill ==
  /\ tool = "browser.fill"
  /\ \E e \in Expectations :
       \/ Raises(e, outside)
       \/ \E a \in BrowserAnswers({"yes", "no", "unsaid"}) :
            /\ a.is_error => a.done = "unsaid"
            /\ Claims(ClaimOf(tool, e, a), outside, Unseen)

\* A click is not made on a page that shows what is expected of it.  A page that does not
\* show it after the click is left for the fallback address, whose answer replaces that of
\* the click.
Click ==
  /\ tool = "browser.click"
  /\ \E e \in Expectations :
       \/ /\ e # "none" /\ outside = "expected"
          /\ Claims(ClaimOf(tool, e, [Answer(FALSE, "yes", "other") EXCEPT !.shown = "yes"]),
                    outside, outside)
       \/ \E page \in Outside : Raises(e, page)
       \/ /\ e = "none" \/ outside # "expected"
          /\ \E page \in Outside :
               \/ \E a \in BrowserAnswers({"yes", "no", "unsaid"}) :
                    /\ a.is_error => a.done = "unsaid"
                    /\ a.done # "yes" => page = outside
                    /\ Claims(ClaimOf(tool, e, Compared(a, e, page)), page, Look(e, page))
               \/ /\ e # "none"
                  /\ \E a \in BrowserAnswers({"unsaid"}) :
                       Claims(ClaimOf(tool, e, Compared(a, e, page)), page, page)

-----------------------------------------------------------------------------
(* verify, judge and decide.                                                *)

\* A pull request whose number was read from a text is any pull request, and a server that
\* answers a question about a file with an error has not found it.
MayFind(c) ==
  IF c.tool \in FilesystemTool THEN {outside}
  ELSE IF c.tool = "github.create_pull_request" /\ c.result.done # "yes" THEN Outside
  ELSE {outside, "absent"}

VerifierFailure == CallFailure \cup [mcp : {FALSE}, message : {"timeout", "timed out", "429"}]

Concludes(v, look) ==
  /\ node = "verify" /\ node' = IF NeedsJudge(v) THEN "judge" ELSE "decide"
  /\ result' = v /\ seen' = look
  /\ UNCHANGED <<tool, planned, outside, retry_count, claim>>

Check ==
  /\ node = "verify"
  /\ \/ /\ ~LooksOutside(claim)
        /\ Concludes(Verify(claim, outside), seen)
     \/ /\ LooksOutside(claim)
        /\ \E found \in MayFind(claim) : Concludes(Verify(claim, found), found)
     \/ \E f \in VerifierFailure :
          /\ LooksOutside(claim) \/ (tool = "filesystem.read_file" /\ ~f.mcp /\ f.message = "other")
          /\ Concludes(VerifierFailed(f), seen)

Judge ==
  /\ node = "judge" /\ node' = "decide"
  /\ \/ \E verified \in BOOLEAN, confidence \in {0, 50, 70, 100},
           text \in {"timeout", "element not found", "other"} :
          result' = Judgement(verified, confidence, text)
     \/ \E retryable \in BOOLEAN : result' = NoJudgement(retryable)
  /\ UNCHANGED <<tool, planned, outside, seen, retry_count, claim>>

\* Mutants of Decide: the retry is not counted; one retry too many is allowed.
DecideUncounted ==
  /\ node = "decide"
  /\ node' = CASE Decision(claim, result, retry_count) = "pick_task" -> "verified"
               [] Decision(claim, result, retry_count) = "execute" -> "execute"
               [] Decision(claim, result, retry_count) = "escalate" -> "escalated"
  /\ UNCHANGED <<tool, planned, outside, seen, claim, result, retry_count>>
DecideOnceMore ==
  /\ node = "decide"
  /\ LET retry == Retryable(claim, result) /\ retry_count <= MAX_RETRIES IN
     /\ node' = IF Accepted(result) THEN "verified"
                ELSE IF retry THEN "execute" ELSE "escalated"
     /\ retry_count' = IF node' = "execute" THEN retry_count + 1 ELSE retry_count
  /\ UNCHANGED <<tool, planned, outside, seen, claim, result>>

Decide ==
  /\ node = "decide"
  /\ node' = CASE Decision(claim, result, retry_count) = "pick_task" -> "verified"
               [] Decision(claim, result, retry_count) = "execute" -> "execute"
               [] Decision(claim, result, retry_count) = "escalate" -> "escalated"
  /\ retry_count' = IF node' = "execute" THEN retry_count + 1 ELSE retry_count
  /\ UNCHANGED <<tool, planned, outside, seen, claim, result>>

-----------------------------------------------------------------------------

\* Someone else changes what the task is about, or the model named another file or page.
Interfere ==
  /\ ~Settled
  /\ outside' \in Outside \ {outside}
  /\ UNCHANGED <<tool, planned, seen, node, retry_count, claim, result>>

\* Stands for the next task of the run.
Done == Settled /\ UNCHANGED vars

Execute == WriteFile \/ ReadFile \/ CallGithub \/ Navigate \/ Fill \/ Click
Step == Execute \/ Check \/ Judge \/ Decide
Next == Step \/ Interfere \/ Done

Spec == Init /\ [][Next]_vars

\* A pass goes on: calls of tools and models are cut off, or the client gives up.
FairSpec == Spec /\ WF_vars(Step)

-----------------------------------------------------------------------------
(* Properties.                                                              *)

\* The executor tells the page to the verifier through the text of the answer; with no text
\* the expectation is found in what the executor itself wrote down (browser.py).
Silent(c) == c.expects = "plain" /\ c.result.text = Blank

\* A task verified without the judge rests on something that was seen in the attempt that
\* is decided on: a file with the content asked for, a page with the text expected, a file
\* or an open pull request in the repository.  Only a page whose answer carries no text, or
\* one nothing is expected of, is believed on the executor's word.
VerifiedHasEvidence ==
  node = "verified" /\ ~result.judged =>
    CASE tool \in FilesystemTool ->
           seen = "expected" \/ (seen = "other" /\ claim.expects = "none")
      [] tool \in {"browser.navigate", "browser.click"} ->
           /\ ~claim.result.is_error
           /\ claim.expects # "none" => seen = "expected" \/ Silent(claim)
      [] tool = "browser.fill" -> claim.result.done = "yes"
      [] tool \in {"github.create_file", "github.get_file"} -> seen # "absent"
      [] tool = "github.create_pull_request" -> seen \in {"expected", "empty"}

\* A model never settles what the deterministic checks settled: only tasks in the browser
\* are judged, and none whose tool answered with an error, raised one that says something,
\* or could not be checked.
OnlyDoubtIsJudged ==
  node = "judge" \/ (node \in {"decide", "verified", "escalated"} /\ result.judged) =>
    /\ tool \in BrowserTool
    /\ ~claim.result.is_error
    /\ claim.result.kind = "nothing" => claim.error = Blank

\* A tool is called.
Called == node = "execute" /\ node' = "verify"

\* No tool is called again after a failure that the executor or the MCP client has classified
\* as final, whatever a verifier or the judge said of the same attempt.
FinalFailuresAreNotRetried ==
  [][(claim # None /\ claim.details # None /\ claim.details.retryable = "no") => ~Called]_vars

\* What has been seen to have happened is not done again: no tool is called once more for a
\* file, a page or a pull request that the attempt before has seen as expected, even when
\* the answer of the tool got lost or was an error.
SeenIsNotRepeated == [][Called => seen # "expected"]_vars

\* Every task is settled: verified, or handed to a reviewer after a bounded number of
\* attempts, whatever tools and models answer and others do meanwhile.
TaskSettles == <>Settled
=============================================================================
