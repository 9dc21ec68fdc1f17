------------------------------- MODULE McpServer ------------------------------
(***************************************************************************)
(* Requests to the MCP server behind the rate limiter: handleRequest       *)
(* (internal/mcp/server.go) has the parameters checked by the validator    *)
(* (input_validator.go) and calls the tool (tools.go), which reads its     *)
(* parameters again and checks or clamps them itself.                      *)
(*                                                                         *)
(* Parameters are a record with the fields the client sent.  A value is a  *)
(* number, a string, or a string that one of the shell patterns matches.   *)
(* JSON numbers are floating-point: they are given in halves.              *)
(***************************************************************************)
EXTENDS RateLimiter

CONSTANTS
    Tools,        \* the names registered by RegisterRuntimeTools
    Parameters    \* the parameters that clients send

\* A value has a type, and a number is a whole number of halves.
ASSUME ParametersAssumption ==
    \A p \in Parameters : \A name \in DOMAIN p :
        p[name].type = "number" => p[name].half \in Int

VARIABLE serving  \* the method of each request that was allowed and not yet answered

mcpVars == <<vars, serving>>

Nothing == "none"

InitMcp ==
    /\ Init
    /\ serving = [r \in Requests |-> Nothing]

Number(half) == [type |-> "number", half |-> half]
Between(v, lo, hi) == v.type = "number" /\ 2 * lo <= v.half /\ v.half <= 2 * hi
int(v) == v.half \div 2
-------------------------------------------------------------------------------
(***************************************************************************)
(* InputValidator.                                                         *)
(***************************************************************************)
validateValue(v) == v.type # "command"

\* Mutant of validateLoadTest: the name duration_seconds goes first.
SecondsFirst(p) ==
    LET duration == IF "duration_seconds" \in DOMAIN p THEN "duration_seconds" ELSE "duration"
    IN  /\ {"tps", duration} \subseteq DOMAIN p
        /\ Between(p["tps"], 1, 10000)
        /\ Between(p[duration], 1, 300)

\* The duration may come under either name; if under both, duration counts.
validateLoadTest(p) ==
    LET duration == IF "duration" \in DOMAIN p THEN "duration" ELSE "duration_seconds"
    IN  /\ {"tps", duration} \subseteq DOMAIN p
        /\ Between(p["tps"], 1, 10000)
        /\ Between(p[duration], 1, 300)

validateOptional(p, name, max) == name \in DOMAIN p => Between(p[name], 1, max)

Validate(tool, p) ==
    /\ \A name \in DOMAIN p : validateValue(p[name])
    /\ tool = "run_load_test" => validateLoadTest(p)
    /\ tool = "get_reorg_history" => validateOptional(p, "limit", 1000)
    /\ tool = "get_apply_block_latency" => validateOptional(p, "limit", 10000)
    /\ tool = "validate_determinism" => validateOptional(p, "block_count", 100)

(***************************************************************************)
(* RuntimeTools: what a tool makes of its parameters.                      *)
(***************************************************************************)
\* A number that is missing or not positive is replaced, one above max cut.
Clamped(p, name, default, max) ==
    LET sent == IF name \in DOMAIN p /\ p[name].type = "number" THEN int(p[name]) ELSE default
    IN  IF sent <= 0 THEN default ELSE IF sent > max THEN max ELSE sent

RunLoadTestParams(p) ==
    LET duration == IF "duration" \in DOMAIN p THEN "duration" ELSE "duration_seconds"
    IN  IF /\ {"tps", duration} \subseteq DOMAIN p
           /\ p["tps"].type = "number" /\ 1 <= int(p["tps"]) /\ int(p["tps"]) <= 10000
           /\ p[duration].type = "number" /\ 1 <= int(p[duration]) /\ int(p[duration]) <= 300
        THEN [ok |-> TRUE, uses |-> [name \in {"tps", duration} |-> int(p[name])]]
        ELSE [ok |-> FALSE]

Limited(p, name, default, max) ==
    [ok |-> TRUE, uses |-> [n \in {name} |-> Clamped(p, n, default, max)]]

ToolParams(tool, p) ==
    CASE tool = "run_load_test"           -> RunLoadTestParams(p)
      [] tool = "get_reorg_history"       -> Limited(p, "limit", 10, 100)
      [] tool = "get_apply_block_latency" -> Limited(p, "limit", 100, 1000)
      [] tool = "validate_determinism"    -> Limited(p, "block_count", 10, 100)
      [] OTHER                            -> [ok |-> TRUE, uses |-> <<>>]
-------------------------------------------------------------------------------
(***************************************************************************)
(* handleRequest, in three steps: the two of Allow, and the rest, which    *)
(* shares nothing with other requests but the tools' own state (modules    *)
(* Pipeline and LoadTester).                                               *)
(***************************************************************************)
Receive(r) ==
    /\ serving[r] = Nothing
    /\ \E m \in Methods : Lookup(r, m)
    /\ UNCHANGED serving

Allow(r) ==
    /\ Decide(r)
    /\ serving' = IF allowed' # allowed
                  THEN [serving EXCEPT ![r] = request[r].method] ELSE serving

\* What a request may be answered with parameters p, and what the tool uses.
\* A tool whose parameters are in order may still fail, and says so.
Answer(code, uses) == [code |-> code, uses |-> uses]
Answers(tool, p) ==
    IF ~Validate(tool, p) THEN {Answer("invalidParams", <<>>)}
    ELSE IF tool \notin Tools THEN {Answer("methodNotFound", <<>>)}
    ELSE IF ~ToolParams(tool, p).ok THEN {Answer("badParams", <<>>)}
    ELSE {Answer(code, ToolParams(tool, p).uses) : code \in {"success", "failed"}}

\* The answer goes to the client and leaves nothing behind.
Serve(r) ==
    /\ serving[r] # Nothing
    /\ serving' = [serving EXCEPT ![r] = Nothing]
    /\ UNCHANGED vars

NextMcp ==
    \/ Tick /\ UNCHANGED serving
    \/ \E r \in Requests : Receive(r) \/ Allow(r) \/ Serve(r)

SpecMcp == InitMcp /\ [][NextMcp]_mcpVars
-------------------------------------------------------------------------------
(***************************************************************************)
(* Properties.                                                             *)
(***************************************************************************)

(***************************************************************************)
(* Validator and tools agree: with whatever parameters a request gets past *)
(* the limiter, a tool never turns down what the validator let through, so *)
(* that a client's mistake is always answered as one, and it works with    *)
(* positive numbers none of which exceeds what was sent.                   *)
(***************************************************************************)
CheckedIsServed ==
    \A r \in {q \in Requests : serving[q] # Nothing}, p \in Parameters :
        \A a \in Answers(serving[r], p) :
            /\ a.code # "badParams"
            /\ \A name \in DOMAIN a.uses :
                  a.uses[name] > 0 /\ (name \in DOMAIN p => a.uses[name] <= int(p[name]))
===============================================================================
