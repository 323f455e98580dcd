------------------------------ MODULE LlmChain ------------------------------
(* The chain of language model clients (llm.rs, llm-provider): a cache over  *)
(* a router of models over the provider.  Calls of several callers           *)
(* interleave at every await; the provider may fail, answer late or answer a *)
(* batch out of order.                                                       *)
EXTENDS Integers, Sequences, FiniteSets, Absent

CONSTANTS
  LlmCallers,   \* tasks that call the client
  Prompts,      \* what is asked
  LongPrompts,  \* prompts at or above the token threshold
  TextBatches,  \* sequences of texts to embed
  MaxCalls      \* bound: requests begun

VARIABLES
  models,       \* the cheap and the strong model of the configuration
  requests,     \* per caller: what it asks, where it is, its provider calls and its result
  completions,  \* cached answers by key
  embeddings,   \* cached vectors by text
  begun         \* requests begun

llmVars == <<models, requests, completions, embeddings, begun>>

HighValue == {"merge"}
Completions == [prompt : Prompts, schema : {NULL, "s"}, task : {"general", "merge"}, model : {NULL, "cheap", "own"}]

\* Everything the provider is told takes part in the key.
CompletionKey(q) == <<q.prompt, q.schema, q.task, q.model>>

Either(first, second) == IF first # NULL THEN first ELSE second

RoutedModel(q) ==
  IF q.model # NULL THEN q.model
  ELSE IF q.task \in HighValue \/ q.prompt \in LongPrompts THEN Either(models.strong, models.cheap)
  ELSE Either(models.cheap, models.strong)

\* Only an error of the provider, never a timeout or a rate limit, is worth the stronger model.
ShouldUpgrade(error, model) == error = "provider" /\ model = models.cheap /\ models.strong # NULL

\* What a response means: a missing text is an error of the provider, 429 a rate limit.
Outcomes == {"ok", "provider", "timeout", "limited"}
CompletionOf(q, model) == [prompt |-> q.prompt, schema |-> q.schema, task |-> q.task, by |-> model]

IdleCaller == [at |-> "idle", kind |-> NULL, q |-> NULL, texts |-> << >>, loaded |-> << >>, tried |-> << >>, out |-> NULL, miss |-> << >>]
MovesTo(c, stage) == [requests EXCEPT ![c].at = stage]
ConcludedWith(c, out) == [requests EXCEPT ![c] = [@ EXCEPT !.at = "done", !.out = out]]

BeginCompletion(c) ==
  /\ requests[c].at \in {"idle", "done"} /\ begun < MaxCalls
  /\ begun' = begun + 1
  /\ \E q \in Completions : requests' = [requests EXCEPT ![c] = [IdleCaller EXCEPT !.at = "lookup", !.kind = "complete", !.q = q]]
  /\ UNCHANGED <<models, completions, embeddings>>

LookUp(c) ==
  /\ requests[c].at = "lookup"
  /\ LET key == CompletionKey(requests[c].q)
     IN requests' = IF key \in DOMAIN completions THEN ConcludedWith(c, [answer |-> completions[key]]) ELSE MovesTo(c, "ask")
  /\ UNCHANGED <<models, completions, embeddings, begun>>

\* One call of the provider; after an error of the cheap model the strong one is asked.
AskProvider(c) ==
  /\ requests[c].at \in {"ask", "upgrade"}
  /\ LET r == requests[c]
         model == IF r.at = "upgrade" THEN models.strong ELSE RoutedModel(r.q)
     IN \E outcome \in Outcomes :
          LET told == [r EXCEPT !.tried = Append(@, [model |-> model, outcome |-> outcome])]
          IN requests' = [requests EXCEPT ![c] =
               IF outcome = "ok" THEN [told EXCEPT !.at = "keep", !.out = [answer |-> CompletionOf(r.q, model)]]
               ELSE IF r.at = "ask" /\ ShouldUpgrade(outcome, model) THEN [told EXCEPT !.at = "upgrade"]
               ELSE [told EXCEPT !.at = "done", !.out = [error |-> outcome]]]
  /\ UNCHANGED <<models, completions, embeddings, begun>>

KeepCompletion(c) ==
  /\ requests[c].at = "keep"
  /\ LET key == CompletionKey(requests[c].q)
     IN completions' = [k \in DOMAIN completions \cup {key} |-> IF k = key THEN requests[c].out.answer ELSE completions[k]]
  /\ requests' = MovesTo(c, "done")
  /\ UNCHANGED <<models, embeddings, begun>>

(***************************************************************************)
(* A batch of embeddings: the cached texts are left out, repeats are asked *)
(* once, and the answers are put back in the places of their texts.        *)
(***************************************************************************)
BeginEmbedding(c) ==
  /\ requests[c].at \in {"idle", "done"} /\ begun < MaxCalls
  /\ begun' = begun + 1
  /\ \E texts \in TextBatches :
       requests' = [requests EXCEPT ![c] = [IdleCaller EXCEPT !.at = "gather", !.kind = "embed", !.texts = texts, !.out = [vectors |-> << >>]]]
  /\ UNCHANGED <<models, completions, embeddings>>

InSeq(s, x) == \E k \in DOMAIN s : s[k] = x
Distinct(s) == \A j, k \in DOMAIN s : j # k => s[j] # s[k]
PlaceOf(s, x) == CHOOSE k \in DOMAIN s : s[k] = x

\* One text of the batch at a time: another caller may fill the cache in between.
GatherTexts(c) ==
  /\ requests[c].at = "gather"
  /\ LET r == requests[c]
         k == Len(r.out.vectors) + 1
         text == r.texts[k]
         cached == text \in DOMAIN embeddings
         found == Append(r.out.vectors, IF cached THEN embeddings[text] ELSE NULL)
         miss == IF cached \/ InSeq(r.miss, text) THEN r.miss ELSE Append(r.miss, text)
     IN requests' = [requests EXCEPT ![c] =
          [@ EXCEPT !.out = [vectors |-> found], !.miss = miss,
                    !.at = IF k < Len(r.texts) THEN "gather" ELSE IF miss = << >> THEN "done" ELSE "encode"]]
  /\ UNCHANGED <<models, completions, embeddings, begun>>

\* The provider answers n texts in some order, with the index of each, or in their order without.
ProviderReplies(texts) ==
  {p \in [DOMAIN texts -> [index : DOMAIN texts, vector : {texts[k] : k \in DOMAIN texts}]] :
     /\ Distinct([k \in DOMAIN p |-> p[k].index])
     /\ \A k \in DOMAIN p : p[k].vector = texts[p[k].index]}

\* Sorted by index; a reply of another length is refused.
Extracted(reply) == [k \in DOMAIN reply |-> (CHOOSE i \in DOMAIN reply : reply[i].index = k)]
VectorsOf(reply) == [k \in DOMAIN reply |-> reply[Extracted(reply)[k]].vector]

Encode(c) ==
  /\ requests[c].at = "encode"
  /\ LET r == requests[c]
     IN \/ \E error \in {"provider", "timeout", "limited", "count"} : requests' = ConcludedWith(c, [error |-> error])
        \/ \E reply \in ProviderReplies(r.miss) :
             requests' = [requests EXCEPT ![c] = [@ EXCEPT !.at = "store", !.loaded = VectorsOf(reply)]]
  /\ UNCHANGED <<models, completions, embeddings, begun>>

\* Every missed place, repeats too, takes the vector of the first place of its text.
KeepVectors(c) ==
  /\ requests[c].at = "store"
  /\ LET r == requests[c]
         loaded(text) == r.loaded[PlaceOf(r.miss, text)]
         missed == {r.miss[k] : k \in DOMAIN r.miss}
         filled == [k \in DOMAIN r.texts |-> IF r.out.vectors[k] = NULL THEN loaded(r.texts[k]) ELSE r.out.vectors[k]]
     IN /\ embeddings' = [t \in DOMAIN embeddings \cup missed |-> IF t \in missed THEN loaded(t) ELSE embeddings[t]]
        /\ requests' = ConcludedWith(c, [vectors |-> filled])
  /\ UNCHANGED <<models, completions, begun>>

\* Time to live and capacity.
ExpireAnswers ==
  /\ \/ \E k \in DOMAIN completions : completions' = [x \in DOMAIN completions \ {k} |-> completions[x]] /\ UNCHANGED embeddings
     \/ \E t \in DOMAIN embeddings : embeddings' = [x \in DOMAIN embeddings \ {t} |-> embeddings[x]] /\ UNCHANGED completions
  /\ UNCHANGED <<models, requests, begun>>

\* Without headers that name them both models are the configured one.
LlmInit ==
  /\ models \in {[cheap |-> "own", strong |-> "own"], [cheap |-> "cheap", strong |-> "strong"]}
  /\ requests = [c \in LlmCallers |-> IdleCaller]
  /\ completions = << >> /\ embeddings = << >> /\ begun = 0

LlmNext ==
  \/ \E c \in LlmCallers :
       BeginCompletion(c) \/ LookUp(c) \/ AskProvider(c) \/ KeepCompletion(c) \/ BeginEmbedding(c) \/ GatherTexts(c) \/ Encode(c) \/ KeepVectors(c)
  \/ ExpireAnswers

(***************************************************************************)
(* What must hold.                                                         *)
(***************************************************************************)
Answered(c) == requests[c].at = "done" /\ "answer" \in DOMAIN requests[c].out

\* An answer, cached or not, is to the question asked, by the model asked for unless that is the cheap one.
AnswersFit ==
  \A c \in LlmCallers : requests[c].kind = "complete" /\ Answered(c) =>
    LET q == requests[c].q
        a == requests[c].out.answer
    IN /\ <<a.prompt, a.schema, a.task>> = <<q.prompt, q.schema, q.task>>
       /\ q.model \notin {NULL, models.cheap} => a.by = q.model

\* A request costs two provider calls at most, the second only after the provider failed.
FewCalls ==
  \A c \in LlmCallers : requests[c].kind = "complete" =>
    LET tried == requests[c].tried IN Len(tried) <= 2 /\ (Len(tried) = 2 => tried[1].outcome = "provider" /\ tried[2].model = models.strong)

\* Every text gets its own vector, whatever was cached, repeated or answered out of order.
VectorsFit ==
  /\ \A t \in DOMAIN embeddings : embeddings[t] = t
  /\ \A c \in LlmCallers :
       requests[c].kind = "embed" /\ requests[c].at = "done" /\ "vectors" \in DOMAIN requests[c].out => requests[c].out.vectors = requests[c].texts

LlmSound == AnswersFit /\ FewCalls /\ VectorsFit
=============================================================================
