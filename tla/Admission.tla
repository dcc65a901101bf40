------------------------------- MODULE Admission -------------------------------
(***************************************************************************)
(* How a question gets in and with which configuration it runs: the grant  *)
(* a stream is started with, its redemption, the access to the system, and *)
(* the prompts and the profile the question is answered with, while        *)
(* administrators change systems, owners and configuration (Access,        *)
(* Configuration).  What a run does is in Questions and Search.            *)
(*                                                                         *)
(* An action ends at a statement of the database or a command of Redis.    *)
(***************************************************************************)
EXTENDS Naturals, Sequences, FiniteSets

CONSTANTS
    Request, Scenario, Profile, Version, Seed, Seeded,
    System, Account, Owner, Administrator,
    GROUNDED_ANSWER, QUERY_REWRITE,     \* the scenarios
    Token,                              \* bound on the streams granted
    MaxRequests                         \* bound on the requests that begin

ASSUME ConfigurationAssumption ==
    /\ {GROUNDED_ANSWER, QUERY_REWRITE} \subseteq Scenario
    /\ Scenario \cap Profile = {}
    /\ Seed \in Version /\ Seeded \subseteq Scenario \cup Profile
ASSUME BoundAssumption == MaxRequests \in Nat
ASSUME AccountAssumption ==
    Owner \subseteq Account /\ Administrator \subseteq Account \ Owner

VARIABLES
    row, change,                        \* Configuration
    status, owners, session, edit,      \* Access
    token,                              \* Redis: the grants not redeemed
    runs,                               \* how often a granted run started
    question,                           \* the questions' requests
    begun                               \* requests, up to MaxRequests

configurationVars == <<row, change>>
accessVars == <<status, owners, session, edit>>
questionVars == <<token, runs, question>>
vars == <<row, change, status, owners, session, edit, token, runs, question, begun>>

Configured == INSTANCE Configuration
Permitted == INSTANCE Access

-----------------------------------------------------------------------------
(* What is asked.  profile: the one the caller names, if any.              *)
Asked == [account      : Account,
          system       : System,
          profile      : {{}} \cup {{p} : p \in Profile},
          conversation : BOOLEAN]

NoGrant == [state |-> "new"]
Gone == [state |-> "gone"]
Stored(asked) == [state |-> "stored", asked |-> asked]

(* run: the token of a stream.  todo: what is left to prepare.  cache:     *)
(* request.state.active_prompts as far as it is read; rewriter, answerer:  *)
(* the prompts of the request's copies of the model's client.              *)
Question == [at : {"idle"}]
    \cup [at : {"ask", "mint"}, asked : Asked]
    \cup [at : {"redeem"}, account : Account, run : Token]
    \cup [at : {"recheck"}, asked : Asked, run : Token]
    \cup [at : {"prepare"}, profile : SUBSET Profile, run : SUBSET Token,
          todo : Seq({"rewrite", "build", "profile"}),
          cache : Seq(SUBSET Version), rewriter : Seq(SUBSET Version),
          answerer : Seq(SUBSET Version)]

NoQuestion == [at |-> "idle"]

Free(r) ==
    change[r].at = "idle" /\ edit[r].at = "idle" /\ question[r].at = "idle"

Continue(r, frame) == question' = [question EXCEPT ![r] = frame]

End(r) == Continue(r, NoQuestion)

require_system_access(asked) ==
    Permitted!require_system_access(asked.system, asked.account, TRUE)

(* authenticate_session.                                                   *)
LoggedIn(a) == a \in session

Init ==
    /\ Configured!Init
    /\ Permitted!Init
    /\ token = [t \in Token |-> NoGrant]
    /\ runs = [t \in Token |-> 0]
    /\ question = [r \in Request |-> NoQuestion]
    /\ begun = 0

-----------------------------------------------------------------------------
Begin(r, at) ==
    /\ \E asked \in Asked : /\ LoggedIn(asked.account)
                            /\ Continue(r, [at |-> at, asked |-> asked])
    /\ UNCHANGED <<token, runs>>

ask_question(r) == Begin(r, "ask")

start_question_stream(r) == Begin(r, "mint")

Prepare(asked, run, todo) ==
    [at |-> "prepare", profile |-> asked.profile, run |-> run, todo |-> todo,
     cache |-> <<>>, rewriter |-> <<>>, answerer |-> <<>>]

(* A question within a conversation is rewritten first, and only then are  *)
(* retrieval and the answer set up; a stream sets them up first.           *)
Rewriting(asked) == IF asked.conversation THEN <<"rewrite">> ELSE <<>>

Authorize(r) ==
    /\ question[r].at = "ask"
    /\ LET asked == question[r].asked
       IN  IF require_system_access(asked)
           THEN Continue(r, Prepare(asked, {}, Rewriting(asked) \o <<"build", "profile">>))
           ELSE End(r)
    /\ UNCHANGED <<token, runs>>

Mint(r) ==
    /\ question[r].at = "mint"
    /\ LET asked == question[r].asked
       IN  IF require_system_access(asked)
           THEN \E t \in Token : /\ token[t] = NoGrant
                                 /\ token' = [token EXCEPT ![t] = Stored(asked)]
           ELSE UNCHANGED token
    /\ End(r)
    /\ UNCHANGED runs

(* Mutant of AfterRead: GET, and the key is left to expire.                *)
LeftToExpire(t) == token[t]

AfterRead(t) == Gone

question_stream_events(r, a, t) ==
    /\ LoggedIn(a) /\ token[t] # NoGrant
    /\ Continue(r, [at |-> "redeem", account |-> a, run |-> t])
    /\ UNCHANGED <<token, runs>>

(* GETDEL; the account is part of the key.                                 *)
_consume_sse_token(r) ==
    /\ question[r].at = "redeem"
    /\ LET t == question[r].run
       IN  IF token[t] # Gone /\ token[t].asked.account = question[r].account
           THEN /\ token' = [token EXCEPT ![t] = AfterRead(t)]
                /\ Continue(r, [at |-> "recheck", asked |-> token[t].asked, run |-> t])
           ELSE End(r) /\ UNCHANGED token
    /\ UNCHANGED runs

TokenExpires(t) ==
    /\ token[t] \notin {NoGrant, Gone}
    /\ token' = [token EXCEPT ![t] = Gone]
    /\ UNCHANGED <<runs, question>>

Recheck(r) ==
    /\ question[r].at = "recheck"
    /\ LET asked == question[r].asked
       IN  IF require_system_access(asked)
           THEN Continue(r, Prepare(asked, {question[r].run},
                                    <<"build", "profile">> \o Rewriting(asked)))
           ELSE End(r)
    /\ UNCHANGED <<token, runs>>

-----------------------------------------------------------------------------
(* Setting up a run.                                                       *)
Doing(r, step) ==
    question[r].at = "prepare" /\ question[r].todo # <<>> /\ Head(question[r].todo) = step

Done(r) == [question[r] EXCEPT !.todo = Tail(@)]

Scenarios == <<GROUNDED_ANSWER, QUERY_REWRITE>>

Resolved(r) == Len(question[r].cache) = Len(Scenarios)

(* One SELECT for a scenario after the other, unless they are cached.      *)
_resolve_active_prompts(r) ==
    /\ Doing(r, "rewrite") \/ Doing(r, "build")
    /\ ~Resolved(r)
    /\ LET scenario == Scenarios[Len(question[r].cache) + 1]
       IN  Continue(r, [question[r] EXCEPT
               !.cache = Append(@, Configured!get_active(scenario))])
    /\ UNCHANGED <<token, runs>>

(* Mutant of Cached: the prompts are read again for every use.             *)
NotCached(cache) == <<>>

Cached(cache) == cache

(* The rewriter's copy of the client, and the call of the model.           *)
_maybe_rewrite_query(r) ==
    /\ Doing(r, "rewrite") /\ Resolved(r)
    /\ Continue(r, [Done(r) EXCEPT !.rewriter = question[r].cache,
                                   !.cache = Cached(@)])
    /\ UNCHANGED <<token, runs>>

_build_request_llm(r) ==
    /\ Doing(r, "build") /\ Resolved(r)
    /\ Continue(r, [Done(r) EXCEPT !.answerer = question[r].cache,
                                   !.cache = Cached(@)])
    /\ UNCHANGED <<token, runs>>

(* A profile that is named has to be active; without one the settings do.  *)
_build_question_service(r) ==
    /\ Doing(r, "profile")
    /\ IF \A p \in question[r].profile : Configured!get_active(p) # {}
       THEN Continue(r, Done(r))
       ELSE End(r)
    /\ UNCHANGED <<token, runs>>

Run(r) ==
    /\ question[r].at = "prepare" /\ question[r].todo = <<>>
    /\ runs' = [t \in Token |-> runs[t] + IF t \in question[r].run THEN 1 ELSE 0]
    /\ End(r)
    /\ UNCHANGED token

-----------------------------------------------------------------------------
Ask(r) ==
    \/ ask_question(r) \/ start_question_stream(r)
    \/ \E a \in Account, t \in Token : question_stream_events(r, a, t)

GoOn(r) ==
    \/ Authorize(r) \/ Mint(r) \/ _consume_sse_token(r) \/ Recheck(r)
    \/ _resolve_active_prompts(r) \/ _maybe_rewrite_query(r)
    \/ _build_request_llm(r) \/ _build_question_service(r) \/ Run(r)

(* A request begins.                                                       *)
Begun(r) == Free(r) /\ begun < MaxRequests /\ begun' = begun + 1

QuestionStep(r) ==
    \/ Begun(r) /\ Ask(r)
    \/ GoOn(r) /\ UNCHANGED begun

ConfigurationStep(r) ==
    \/ Begun(r) /\ Configured!Start(r)
    \/ Configured!Proceed(r) /\ UNCHANGED begun

AccessStep(r) ==
    \/ Begun(r) /\ Permitted!Start(r)
    \/ Permitted!Proceed(r) /\ UNCHANGED begun

Next ==
    \/ /\ \/ \E r \in Request : QuestionStep(r)
          \/ \E t \in Token : TokenExpires(t) /\ UNCHANGED begun
       /\ UNCHANGED <<configurationVars, accessVars>>
    \/ /\ \E r \in Request : ConfigurationStep(r)
       /\ UNCHANGED <<accessVars, questionVars>>
    \/ /\ \E r \in Request : AccessStep(r)
       /\ UNCHANGED <<configurationVars, questionVars>>
    \/ Permitted!LogIn /\ UNCHANGED <<configurationVars, questionVars, begun>>

Spec == Init /\ [][Next]_vars

-----------------------------------------------------------------------------
TypeOK ==
    /\ Configured!TypeOK /\ Permitted!TypeOK
    /\ token \in [Token -> {NoGrant, Gone} \cup {Stored(asked) : asked \in Asked}]
    /\ runs \in [Token -> Nat]
    /\ question \in [Request -> Question]
    /\ begun \in 0 .. MaxRequests

(* Of a scenario or a profile at most one version is active, though an     *)
(* activation does not see the versions saved since it began, and another  *)
(* may have activated one of them (prompt_repository.py activate).         *)
OneActiveVersion == Configured!OneActiveVersion

(* A name that has an active version keeps one, whichever activations and  *)
(* failures follow: questions do not fall back to the packaged prompt.     *)
ActiveStays ==
    [][\A n \in Configured!Name :
          Configured!get_active(n) # {} => Configured!get_active(n)' # {}]_vars

(* However often a grant is presented and by however many requests, its    *)
(* run starts at most once (_consume_sse_token).  The variables keep their *)
(* types.                                                                  *)
Starting(t) ==
    {r \in Request : \/ question[r].at = "recheck" /\ question[r].run = t
                     \/ question[r].at = "prepare" /\ t \in question[r].run}

RunsStartOnce ==
    TypeOK /\ \A t \in Token : runs[t] + Cardinality(Starting(t)) <= 1

(* The question is rewritten and answered under the same prompts, though   *)
(* an administrator activates others meanwhile (_resolve_active_prompts).  *)
OnePromptSet ==
    \A r \in Request :
        question[r].at = "prepare" /\ question[r].rewriter # <<>>
                /\ question[r].answerer # <<>> =>
            question[r].rewriter = question[r].answerer
=============================================================================
