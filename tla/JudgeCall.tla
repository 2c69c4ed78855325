------------------------------ MODULE JudgeCall ------------------------------
(***************************************************************************)
(* One call of a judge, from what comes over the wire to the trace that    *)
(* the experiments record: the transports and the five adapters            *)
(* (evaluators/judge/providers.py), the evaluator (evaluator.py), the two  *)
(* decision contracts (models.py), and what the experiments' diagnostics   *)
(* say of an answer that failed.                                           *)
(*                                                                         *)
(* A wire tells how the exchange ended and, where it was answered, the     *)
(* status, the kind of JSON of the body and what it says: where the        *)
(* assistant's content stands ("usual", an empty list of answers, none),   *)
(* what that content is, the model, the text of an error, a delay.         *)
(***************************************************************************)
EXTENDS Integers

Contracts == {"evidence", "label"}   \* JudgeDecision, JudgeClassificationDecision

\* "torn": JSON that breaks off; "fenced": JSON in a code fence; "inconsistent": evidence whose
\* label and claims disagree.  A label lacks what the evidence contract requires, an evidence
\* has what the label contract forbids.
Contents == {"", "blank", "torn", "fenced", "array", "inconsistent"} \cup Contracts

None == "none"

Success(status) == 200 <= status /\ status < 300

-----------------------------------------------------------------------------
(* The wire *)

EmptyBody == [place |-> "absent", content |-> "", model |-> None, error |-> None, delay |-> None]

Body(wire) == IF wire.json = "object" THEN wire.body ELSE EmptyBody

\* _default_transport: the body of a success that is no JSON, or breaks off, is an exception
\* that nobody handles.
Unreadable(wire) ==
  \/ wire.how = "cut_off"
  \/ wire.how = "answered" /\ Success(wire.status) /\ wire.json = "unreadable"

Unanswered(wire) == wire.how \in {"timed_out", "unreachable"}

TransportError(how) == IF how = "timed_out" THEN "API_TIMEOUT" ELSE "API_NETWORK_ERROR"
LocalTransportError(how) == IF how = "timed_out" THEN "LOCAL_TIMEOUT" ELSE "LOCAL_CONNECTION_ERROR"

ErrorClass(status) ==
  CASE status \in {401, 403} -> "API_AUTH_ERROR"
    [] status = 402          -> "API_QUOTA_ERROR"
    [] status = 429          -> "API_RATE_LIMIT"
    [] status \in {408, 504} -> "API_TIMEOUT"
    [] 500 <= status /\ status < 600 /\ status # 504 -> "API_SERVER_ERROR"
    [] OTHER                 -> "API_ERROR"

\* What the local service says of an error comes before its status.
LocalErrorClass(status, error) ==
  CASE error = "memory"    -> "LOCAL_OOM"
    [] error = "resources" -> "LOCAL_RESOURCE_ERROR"
    [] OTHER ->
       CASE status = 404          -> "LOCAL_MODEL_NOT_FOUND"
         [] status \in {408, 504} -> "LOCAL_TIMEOUT"
         [] 500 <= status /\ status < 600 /\ status # 504 -> "LOCAL_SERVER_ERROR"
         [] OTHER                 -> "LOCAL_REQUEST_ERROR"

\* A header that is no delay, or a negative one, gives way to the details of the error.
RetryAfter(wire) ==
  IF wire.header = "seconds" THEN "header"
  ELSE IF Body(wire).delay = "seconds" THEN "details" ELSE None

RateLimitDimension(wire) ==
  IF wire.status # 429 THEN None
  ELSE IF Body(wire).error \in {"RPD", "TPM", "RPM"} THEN Body(wire).error ELSE "OTHER"

ContentText(body) == IF body.place = "usual" THEN body.content ELSE ""

-----------------------------------------------------------------------------
(* The adapters.  A call tells what its request carried of the schema, and  *)
(* whether the provider is said to have enforced it.                        *)

Raised == [ended |-> "raised"]

Call(wire, api, error, content, model, carried, enforced) ==
  [ended |-> "returned", api |-> api, error |-> error, content |-> content, model |-> model,
   delay |-> RetryAfter(wire), dimension |-> RateLimitDimension(wire), carried |-> carried,
   enforced |-> enforced]

FailedCall(mode, error, carried) ==
  [ended |-> "returned", api |-> FALSE, error |-> error, content |-> "", model |-> None,
   delay |-> None, dimension |-> None, carried |-> carried, enforced |-> mode = "STRICT"]

CommonCall(wire, model, carried, enforced) ==
  Call(wire, Success(wire.status), IF Success(wire.status) THEN None ELSE ErrorClass(wire.status),
       ContentText(Body(wire)), model, carried, enforced)

\* The first of Gemini's candidates is taken unseen, and the model it names is the one asked.
GeminiCall(mode, wire) ==
  LET carried == CASE mode \in {"STRICT", "BEST_EFFORT"} -> "schema"
                   [] mode = "OBJECT" -> "json" [] OTHER -> "nothing"
  IN  IF Unanswered(wire) THEN FailedCall(mode, TransportError(wire.how), carried)
      ELSE IF Body(wire).place = "empty" THEN Raised
      ELSE CommonCall(wire, "same", carried, mode = "STRICT")

GroqCall(mode, wire) ==
  LET carried == CASE mode = "STRICT" -> "schema" [] mode = "OBJECT" -> "json" [] OTHER -> "nothing"
  IN  IF Unanswered(wire) THEN FailedCall(mode, TransportError(wire.how), carried)
      ELSE CommonCall(wire, Body(wire).model, carried, mode = "STRICT")

OpenRouterCall(mode, wire) ==
  LET carried == CASE mode = "STRICT" -> "schema" [] mode = "OBJECT" -> "json" [] OTHER -> "nothing"
  IN  IF Unanswered(wire) THEN FailedCall(mode, TransportError(wire.how), carried)
      ELSE CommonCall(wire, Body(wire).model, carried, mode = "STRICT")

\* The gateway's request never carries a schema; an answer that names no model names the one asked.
OKMDCall(mode, wire) ==
  IF Unanswered(wire) THEN FailedCall(mode, TransportError(wire.how), "nothing")
  ELSE CommonCall(wire, IF Body(wire).model = None THEN "same" ELSE Body(wire).model,
                  "nothing", FALSE)

\* An answer of another model than the one asked is a failure, and its content is dropped.  A
\* sampling that differs from the frozen one is refused before anything is sent.
SlipMismatched(wire) == Success(wire.status) /\ Body(wire).model = "other"   \* no name is taken as the same
Mismatched(wire) == Success(wire.status) /\ Body(wire).model # "same"
LocalCall(mode, frozen, wire) ==
  LET carried == CASE mode \in {"STRICT", "BEST_EFFORT"} -> "schema"
                   [] mode = "OBJECT" -> "json" [] OTHER -> "nothing"
      error   == IF Success(wire.status) THEN None
                 ELSE LocalErrorClass(wire.status, Body(wire).error)
      answer  == [Call(wire, Success(wire.status), error, ContentText(Body(wire)),
                       Body(wire).model, carried, mode = "STRICT")
                    EXCEPT !.delay = None, !.dimension = None]
  IN  IF frozen = "differs" THEN Raised
      ELSE IF Unanswered(wire) THEN FailedCall(mode, LocalTransportError(wire.how), carried)
      ELSE IF Mismatched(wire)
        THEN [answer EXCEPT !.api = FALSE, !.content = "", !.error = "LOCAL_MODEL_MISMATCH"]
      ELSE answer

\* The modes that the scripts and the constructors give each adapter; a frozen transport is
\* the local one's, and strict.
Adapters ==
  {<<"gemini", "STRICT", None>>, <<"groq", "STRICT", None>>, <<"openrouter", "OBJECT", None>>,
   <<"okmd", "TEXT", None>>, <<"ollama", "TEXT", None>>, <<"ollama", "STRICT", None>>,
   <<"ollama", "STRICT", "agrees">>, <<"ollama", "STRICT", "differs">>}

Judge(adapter, wire) ==
  LET mode == adapter[2]
  IN  IF Unreadable(wire) THEN Raised
      ELSE CASE adapter[1] = "gemini"     -> GeminiCall(mode, wire)
             [] adapter[1] = "groq"       -> GroqCall(mode, wire)
             [] adapter[1] = "openrouter" -> OpenRouterCall(mode, wire)
             [] adapter[1] = "okmd"       -> OKMDCall(mode, wire)
             [] adapter[1] = "ollama"     -> LocalCall(mode, adapter[3], wire)

-----------------------------------------------------------------------------
(* The evaluator *)

\* _parse_payload
ParseError(content, contract) ==
  CASE content = contract -> None
    [] content \in {"", "blank", "torn", "fenced", "array"} -> "PARSE_ERROR"
    [] content \notin {"", "blank", "torn", "fenced", "array", contract} -> "SCHEMA_VALIDATION_ERROR"

\* evaluate_with_trace_and_content: an answer without content is an error of its own.
SlipContentError(call, contract) ==   \* an answer without content is not looked at
  IF call.content = "" THEN None ELSE ParseError(call.content, contract)
ContentError(call, contract) ==
  IF call.content = "" THEN "PARSE_ERROR" ELSE ParseError(call.content, contract)

Trace(call, contract) ==
  LET parsed == call.content # "" /\ ParseError(call.content, contract) = None
  IN  IF call.ended = "raised" THEN Raised
      ELSE [ended |-> "returned", api |-> call.api, model |-> call.model, content |-> call.content,
            error |-> IF call.api THEN ContentError(call, contract) ELSE call.error,
            prediction |-> call.api /\ parsed,
            status |-> IF ~call.api THEN "STRUCTURED_OUTPUT_RUNTIME_FAILED"
                       ELSE IF parsed THEN "PASS" ELSE "PARSE_FAILED",
            delay |-> call.delay, dimension |-> call.dimension, carried |-> call.carried,
            enforced |-> call.enforced]

\* RETRYABLE_ERRORS of the loop that asks (pilot/execution.py)
Retryable == {"API_RATE_LIMIT", "API_SERVER_ERROR", "API_TIMEOUT",
              "LOCAL_CONNECTION_ERROR", "LOCAL_SERVER_ERROR", "LOCAL_TIMEOUT"}

-----------------------------------------------------------------------------
(* What the diagnostics of the local experiments say of an answer *)

\* _json_validator_rule, of the second experiment's evidence contract
EvidenceRule(content) ==
  CASE content = "evidence"     -> None
    [] content = "array"        -> "ROOT_NOT_OBJECT"
    [] content = "inconsistent" -> "SEMANTIC_VALIDATION"
    [] content = "label"        -> "REQUIRED_FIELD_MISSING"
    [] OTHER                    -> "INVALID_JSON"

\* _classification_validator_rule, of the third experiment's label contract
LabelRule(content) ==
  CASE content = "label" -> None
    [] content = "array" -> "ROOT_NOT_OBJECT"
    [] content \in {"evidence", "inconsistent"} -> "EXTRA_PROPERTY"
    [] OTHER             -> "INVALID_JSON"

\* _diagnostic_attempt (second): what did not come through the API is not looked at
DiagnosisV2(trace) ==
  CASE ~trace.api -> [json |-> "NOT_RUN", schema |-> "NOT_RUN", rule |-> None]
    [] trace.api /\ trace.content = "" -> [json |-> "EMPTY_CONTENT", schema |-> "NOT_RUN", rule |-> None]
    [] trace.api /\ trace.content # "" ->
         LET rule == EvidenceRule(trace.content)
         IN  [json   |-> IF rule = "INVALID_JSON" THEN "FAIL" ELSE "PASS",
              schema |-> CASE rule = None -> "PASS" [] rule = "INVALID_JSON" -> "NOT_RUN"
                           [] OTHER -> "FAIL",
              rule   |-> rule]

\* _FailureDiagnostics.append (third)
DiagnosisV3(trace) ==
  LET rule == LabelRule(trace.content)
  IN  [json   |-> IF trace.content = "" THEN IF trace.api THEN "EMPTY_CONTENT" ELSE "FAIL"
                  ELSE IF rule # "INVALID_JSON" THEN "PASS" ELSE "FAIL",
       schema |-> IF trace.content # "" /\ rule = None THEN "PASS" ELSE "FAIL",
       rule   |-> IF trace.content = "" THEN "EMPTY_CONTENT" ELSE rule]

\* classify_assistant_content (run_phase5a_local_forensics.py), of the evidence contract
Category(content) ==
  CASE content \in {"", "blank"} -> "EMPTY_CONTENT"
    [] content = "fenced"        -> "JSON_CODE_FENCE"
    [] content = "torn"          -> "TRUNCATED_JSON"
    [] content = "array"         -> "PARSE_ERROR_ROOT_NOT_OBJECT"
    [] content = "label"         -> "SCHEMA_MISSING_FIELD"
    [] content = "inconsistent"  -> "LABEL_CLAIM_CONSISTENCY_FAILURE"
    [] content = "evidence"      -> "VALID_STRUCTURED_OUTPUT"

\* _diagnostic_record: a failure of the local service is named after its cause
ForensicCategory(call) ==
  IF call.api THEN Category(call.content)
  ELSE CASE call.error = "LOCAL_CONNECTION_ERROR" -> "OLLAMA_RUNTIME_ERROR"
         [] call.error = "LOCAL_MODEL_NOT_FOUND"  -> "MODEL_LOAD_ERROR"
         [] call.error = "LOCAL_TIMEOUT"          -> "TIMEOUT"
         [] OTHER -> call.error

-----------------------------------------------------------------------------
(* The exchanges that a judge can have with each service, and what its     *)
(* trace and its diagnostics must have in common with them.                *)

Exchanges(how, status, json, header, body) ==
  [how : how, status : status, json : json, header : header, body : body]

\* A success with every kind of body, an error with every text and delay, and no answer.
Successes ==
  Exchanges({"answered"}, {200}, {"object", "other", "unreadable"}, {None},
            [place : {"usual", "empty", "absent"}, content : Contents,
             model : {"same", "other", None}, error : {None}, delay : {None}])

Complaints ==
  [place : {"absent"}, content : {""}, model : {None},
   error : {None, "RPD", "TPM", "memory", "resources", "other"}, delay : {None, "seconds"}]
Refusals ==
  Exchanges({"answered"}, {400, 401, 402, 404, 408, 429, 500, 504}, {"object"},
            {None, "seconds", "invalid"}, Complaints)

Silences ==
  Exchanges({"timed_out", "unreachable", "cut_off"}, {0}, {"unreadable"}, {None}, {EmptyBody})

JudgeQuestionsOf(adapter) ==
  [about : {"judge"}, adapter : {adapter}, contract : Contracts,
   wire : Successes \cup Refusals \cup Silences]

AnswerJudge(q) == Trace(Judge(q.adapter, q.wire), q.contract)

\* A call that returns is a prediction just where nothing failed, and then the content met the
\* contract, in an answer of the local model asked for; it is asked again only where asking
\* again may help; what is said to be enforced was sent; and every answer without a prediction
\* is told apart by the diagnostics of its contract, none with a prediction is.
JudgedConclusively(q, a) ==
  a.ended = "returned" =>
    /\ a.prediction <=> a.error = None
    /\ a.prediction <=> a.status = "PASS"
    /\ a.prediction =>
         /\ q.wire.how = "answered" /\ Success(q.wire.status)
         /\ a.content = q.contract
         /\ q.adapter[1] = "ollama" => a.model = "same"
    /\ a.error \in Retryable =>
         /\ ~a.api
         /\ q.wire.how # "answered" \/ q.wire.status \in {408, 429} \cup (500..599)
    /\ a.enforced => a.carried = "schema"
    /\ a.api =>
         LET said == IF q.contract = "evidence" THEN DiagnosisV2(a) ELSE DiagnosisV3(a)
         IN  a.prediction <=> (said.json = "PASS" /\ said.schema = "PASS" /\ said.rule = None)
    /\ a.api /\ q.contract = "evidence" =>
         (a.prediction <=> Category(a.content) = "VALID_STRUCTURED_OUTPUT")
    /\ ~a.api => ForensicCategory(a) \notin {"VALID_STRUCTURED_OUTPUT", None}
=============================================================================
