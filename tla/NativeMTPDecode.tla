--------------------------- MODULE NativeMTPDecode ---------------------------
(***************************************************************************)
(* Speculative decoding of one request with one draft token                *)
(* (inference/native_mtp/generation.py, cache.py, and the forward passes   *)
(* of qwen.py), and the ordinary decoding of mlx-lm that it takes over     *)
(* from.                                                                   *)
(*                                                                         *)
(* The model is an oracle: what it would sample from depends on what its   *)
(* cache layers hold and on the tokens its logits processors are shown.    *)
(* An answer is the set of tokens with a positive probability, one token   *)
(* for greedy decoding; it is chosen when it is first asked for and the    *)
(* same ever after.  A layer holds the tokens it has been fed after the    *)
(* prompt.                                                                 *)
(***************************************************************************)
EXTENDS Integers, Sequences, FiniteSets

CONSTANTS Tokens,
          Stops,        \* the tokens that end a response
          Kind,         \* of each cache layer: "linear", "full" or "rotating"
          PromptLength,
          Window,       \* max_size of the rotating layers
          MaxTokens,    \* of the request
          MaxChoice,    \* bound: the tokens with a positive probability
          NoToken       \* None

Layers == DOMAIN Kind

ASSUME DecodeAssumption ==
  /\ Stops \subseteq Tokens /\ NoToken \notin Tokens
  /\ \A l \in Layers : Kind[l] \in {"linear", "full", "rotating"}
  /\ PromptLength \in Nat /\ Window \in Nat /\ MaxTokens \in Nat \ {0}

VARIABLES
  place,      \* of the request: "idle", "decoding", "finished" or "failed"
  greedy,     \* its temperature is zero
  others,     \* another request waits: activation is not safe
  oracle,     \* the answers of the model so far
  emitted,    \* batch.tokens
  layers,     \* batch.prompt_cache: what each layer holds, and its way back
  context,    \* _token_context, which the logits processors see
  pending,    \* _next_tokens: sampled, but neither fed nor emitted
  mtp         \* _tokenity_native_mtp_state

decodeVars == <<place, greedy, others, oracle, emitted, layers, context, pending, mtp>>

NoWay == [held |-> <<NoToken>>]   \* rollback_state or _tokenity_mtp_undo is None
Off == [on |-> FALSE, queue |-> <<>>, main |-> NoToken, draft |-> NoToken, uncached |-> NoToken]

-----------------------------------------------------------------------------
(* The model.                                                              *)

Supports == {s \in SUBSET Tokens : s # {} /\ Cardinality(s) <= (IF greedy THEN 1 ELSE MaxChoice)}

\* What decides an answer: the layers fed with toks, and the shown tokens.
Sight(toks, shown) == [held |-> [l \in Layers |-> layers[l].held \o toks], shown |-> shown]

Asked(sights) ==
  \E new \in [sights \ DOMAIN oracle -> Supports] :
    oracle' = [s \in DOMAIN oracle \cup sights |->
                 IF s \in DOMAIN oracle THEN oracle[s] ELSE new[s]]

\* What the head may propose: any token, since its answers bind nobody.
Drafts == Tokens

\* With confirmed tokens before others a linear layer keeps its state between
\* the two (the chunks of GatedDeltaNet).
LinearWay(l, toks, confirmed) ==
  IF 0 < confirmed /\ confirmed < Len(toks)
  THEN [held |-> layers[l].held \o SubSeq(toks, 1, confirmed)]
  ELSE layers[l].way

\* An armed rotating layer that gets two tokens keeps what it needs to take the
\* second back (update_and_fetch).
RotatingWay(l, toks, armed) ==
  IF armed /\ Len(toks) = 2 THEN [held |-> layers[l].held \o SubSeq(toks, 1, 1)] ELSE NoWay

\* A forward pass, through one layer after the other.
Fed(toks, confirmed, armed) ==
  [l \in Layers |->
     [held |-> layers[l].held \o toks,
      way |-> CASE Kind[l] = "linear" -> LinearWay(l, toks, confirmed)
                [] Kind[l] = "rotating" -> RotatingWay(l, toks, armed)
                [] Kind[l] = "full" -> NoWay]]

-----------------------------------------------------------------------------
(* The rollback (cache.py).                                                *)

Short(layer) == PromptLength + Len(layer.held) < Window

Trimmable(l, layer) == Kind[l] = "full" \/ (Kind[l] = "rotating" /\ Short(layer))

\* The first loop of restore_after_rejection.
Restorable(fed) == \A l \in Layers : fed[l].way # NoWay \/ Trimmable(l, fed[l])

\* The second: a linear layer goes back to its state between the tokens, a
\* trimmable one drops the last token, another feeds the first again.
RestoredLayers(fed) ==
  [l \in Layers |->
     [held |-> IF Trimmable(l, fed[l]) THEN SubSeq(fed[l].held, 1, Len(fed[l].held) - 1)
               ELSE fed[l].way.held,
      way |-> NoWay]]

\* clear_rollback
Cleared(fed) == [l \in Layers |-> [fed[l] EXCEPT !.way = NoWay]]

-----------------------------------------------------------------------------
DecodeInit ==
  /\ place = "idle" /\ greedy = TRUE /\ others = FALSE
  /\ oracle = [s \in {} |-> {}]
  /\ emitted = <<>> /\ context = <<>>
  /\ layers = [l \in Layers |-> [held |-> <<>>, way |-> NoWay]]
  /\ pending = NoToken /\ mtp = Off

\* A request is prefilled and its first token sampled; mlx-lm takes one
\* request at a time into the decode batch.
Arrive ==
  /\ place = "idle" /\ place' = "decoding"
  /\ greedy' \in BOOLEAN
  /\ \E answer \in (SUBSET Tokens) \ {{}} :
       /\ Cardinality(answer) <= (IF greedy' THEN 1 ELSE MaxChoice)
       /\ oracle' = [s \in {Sight(<<>>, <<>>)} |-> answer]
       /\ pending' \in answer
  /\ UNCHANGED <<others, emitted, layers, context, mtp>>

\* Another request comes, or gives up.
Others ==
  /\ place = "decoding" /\ others' = ~others
  /\ UNCHANGED <<place, greedy, oracle, emitted, layers, context, pending, mtp>>

-----------------------------------------------------------------------------
(* What is sent of a token (_emit).  st and fed are the state and the      *)
(* cache by then.                                                          *)

Last(token) == Len(emitted) + 1 >= MaxTokens \/ token \in Stops

\* _commit_last_uncached
Commit(fed, token) ==
  [l \in Layers |-> [held |-> Append(fed[l].held, token),
                     way |-> IF Kind[l] = "linear" THEN fed[l].way ELSE NoWay]]

(* Broken variant: a last token that is not cached yet is not fed.         *)
EmitUncommitted(st, fed, token, cached) ==
  /\ emitted' = Append(emitted, token)
  /\ IF Last(token)
     THEN /\ place' = "finished" /\ mtp' = Off
          /\ layers' = fed
     ELSE /\ mtp' = [st EXCEPT !.uncached = IF cached THEN NoToken ELSE token]
          /\ layers' = fed
          /\ UNCHANGED place

Emit(st, fed, token, cached) ==
  /\ emitted' = Append(emitted, token)
  /\ IF Last(token)
     THEN /\ place' = "finished" /\ mtp' = Off
          /\ layers' = IF cached THEN fed ELSE Commit(fed, token)
     ELSE /\ mtp' = [st EXCEPT !.uncached = IF cached THEN NoToken ELSE token]
          /\ layers' = fed
          /\ UNCHANGED place

\* _mtp_next: the head of the queue is sent.
SendFirst(st, fed) ==
  Emit([st EXCEPT !.queue = Tail(@)], fed, Head(st.queue).token, Head(st.queue).cached)

-----------------------------------------------------------------------------
(* The ordinary step of mlx-lm: the pending token is fed and sent, and the *)
(* next one sampled.                                                       *)
Plain(enabled) ==
  /\ place = "decoding" /\ ~mtp.on /\ ~(enabled /\ ~others)
  /\ LET sight == Sight(<<pending>>, Append(context, pending)) IN
       /\ Asked({sight})
       /\ pending' \in oracle'[sight]
  /\ context' = Append(context, pending)
  /\ Emit(Off, Fed(<<pending>>, 0, FALSE), pending, TRUE)
  /\ UNCHANGED <<greedy, others>>

\* _post_init, and the first token of its queue: only when no request could
\* join the batch.
Activate(enabled) ==
  /\ place = "decoding" /\ ~mtp.on /\ enabled /\ ~others
  /\ LET sight == Sight(<<pending>>, Append(context, pending)) IN
       /\ Asked({sight})
       /\ \E main \in oracle'[sight], draft \in Drafts :
            SendFirst([Off EXCEPT !.on = TRUE, !.main = main, !.draft = draft,
                                  !.queue = << [token |-> pending, cached |-> TRUE],
                                               [token |-> main, cached |-> FALSE] >>],
                      Fed(<<pending>>, 0, FALSE))
  /\ context' = Append(context, pending)
  /\ pending' = NoToken
  /\ UNCHANGED <<greedy, others>>

Queued ==
  /\ place = "decoding" /\ mtp.on /\ mtp.queue # <<>>
  /\ SendFirst(mtp, layers)
  /\ UNCHANGED <<greedy, others, oracle, context, pending>>

-----------------------------------------------------------------------------
(* The verify cycle: the main token and the draft are fed at once.         *)

Verified == << mtp.main, mtp.draft >>
AfterMain == Append(context, mtp.main)
AfterDraft == AfterMain \o <<mtp.draft>>
VerifySight == Sight(<<mtp.main>>, AfterMain)
BonusSight == Sight(Verified, AfterDraft)

\* Greedy: the draft is the target.  Sampled: it is taken with probability
\* min(1, p/q).
Accepted == mtp.draft \in oracle'[VerifySight]

\* The target instead; sampled, one of the tokens with p > q, which the draft
\* is none of.
Residual == oracle'[VerifySight] \ {mtp.draft}

Accept(fed) ==
  /\ Accepted
  /\ context' = AfterDraft
  /\ \E bonus \in oracle'[BonusSight], draft \in Drafts :
       SendFirst([mtp EXCEPT !.main = bonus, !.draft = draft,
                             !.queue = << [token |-> mtp.draft, cached |-> TRUE],
                                          [token |-> bonus, cached |-> FALSE] >>],
                 Cleared(fed))

(* Broken variant: the processors go on seeing the rejected draft.         *)
RejectRemembering(fed) ==
  /\ context' = AfterDraft
  /\ \E token \in Residual, draft \in Drafts :
       SendFirst([mtp EXCEPT !.main = token, !.draft = draft,
                             !.queue = << [token |-> token, cached |-> FALSE] >>],
                 RestoredLayers(fed))

Reject(fed) ==
  /\ context' = AfterMain
  /\ \E token \in Residual, draft \in Drafts :
       SendFirst([mtp EXCEPT !.main = token, !.draft = draft,
                             !.queue = << [token |-> token, cached |-> FALSE] >>],
                 RestoredLayers(fed))

\* A layer cannot be rolled back: the decode loop raises.
Stuck(fed) ==
  /\ Residual # {} /\ ~Restorable(fed)
  /\ place' = "failed" /\ context' = AfterDraft /\ layers' = fed
  /\ UNCHANGED <<emitted, mtp>>

Verify ==
  /\ place = "decoding" /\ mtp.on /\ mtp.queue = <<>>
  /\ Asked({VerifySight, BonusSight})
  /\ LET fed == Fed(Verified, 1, TRUE)
     IN  \/ Accept(fed)
         \/ Restorable(fed) /\ Reject(fed)
         \/ Stuck(fed)
  /\ UNCHANGED <<greedy, others, pending>>

-----------------------------------------------------------------------------
\* The client goes: the batch is filtered to nothing, and what was sent but
\* not fed is fed.
Cancel ==
  /\ place = "decoding" /\ place' = "finished"
  /\ layers' = IF mtp.on /\ mtp.uncached # NoToken THEN Commit(layers, mtp.uncached) ELSE layers
  /\ mtp' = Off
  /\ UNCHANGED <<greedy, others, oracle, emitted, context, pending>>

DecodeNext(enabled) ==
  Others \/ Plain(enabled) \/ Activate(enabled) \/ Queued \/ Verify \/ Cancel

-----------------------------------------------------------------------------
(* Properties.                                                             *)

PlainSight(toks) == [held |-> [l \in Layers |-> toks], shown |-> toks]

(* Speculation shows in no token: each is one the model could have sampled *)
(* after exactly the tokens before it - with greedy decoding the one that  *)
(* ordinary decoding yields - however drafts were accepted, rejected and   *)
(* rolled back before (_verify_cycle).                                     *)
EmittedAsPlain ==
  \A i \in 1..Len(emitted) :
    LET sight == PlainSight(SubSeq(emitted, 1, i - 1))
    IN  sight \in DOMAIN oracle /\ emitted[i] \in oracle[sight]

(* When a response ends, at any point of a cycle and also when its client  *)
(* goes, every cache layer holds exactly the tokens that were sent, which  *)
(* is what the prompt cache is filed under; and no rejected draft fails to *)
(* be undone (_emit, _commit_last_uncached, restore_after_rejection).      *)
CacheIsEmitted ==
  /\ place # "failed"
  /\ place = "finished" => \A l \in Layers : layers[l].held = emitted
=============================================================================
