----------------------------- MODULE PromptTokens -----------------------------
(***************************************************************************)
(* From a request's text to the token sequences the prefix cache is asked  *)
(* for and given: rendering, anchors, the newline that makes an exact      *)
(* match a strict one, lookup, and the verification of what autosave may   *)
(* call a prefix.                                                          *)
(*                                                                         *)
(* A text is a sequence of characters, a token sequence a sequence of      *)
(* pieces of text.  The tokenizer and the chat template belong to the      *)
(* backend; a tokenizer may merge what stands on both sides of any place.  *)
(* One request is followed; what other requests and processes insert and   *)
(* delete meanwhile is any change of the rows.  Which slot is used and     *)
(* whether a restore succeeds is left open here (SlotContent), and so are  *)
(* files (PrefixTrie).                                                     *)
(***************************************************************************)
EXTENDS Naturals, FiniteSets, Sequences, SequencesExt, FiniteSetsExt

CONSTANTS
    Chars,       \* characters of texts
    Bodies,      \* request bodies clients send
    Template(_), \* POST /apply-template
    Tokenize(_), \* POST /tokenize
    Newline,
    Configs,     \* anchor_configs
    Responses,   \* what the backend generates: sequences of pieces
    MinSave,     \* LMCacheHandler.min_save_tokens
    MaxRows,     \* bound: what there is storage room for
    None

VARIABLES
    options,  \* strict_prefix_restore, generated_prefix_enabled
    rows,     \* nodes of the cache
    req       \* the request: its thread in _handle_request, and its context

vars == <<options, rows, req>>

-----------------------------------------------------------------------------
(* Slips: what the code would do with one plausible mistake in it.  Each one  *)
(* replaces the definition it is named after, to see a property fail.        *)

\* rfind instead of find.
FindMarkerBoundaryLast(text, cfg) ==
    LET k == Len(cfg.marker)
        places == {i \in 0 .. Len(text) - k : SubSeq(text, i + 1, i + k) = cfg.marker}
    IN IF places = {} THEN None
       ELSE IF cfg.side = "before" THEN Max(places) ELSE Max(places) + k

\* All tokens of the slot, once some of the response is verified.
VerifiedWhole(text, pieces, slot) ==
    LET tokens == Tokenize(text)
    IN IF options.generated /\ IsStrictPrefix(tokens, slot) /\ pieces # <<>>
         THEN slot ELSE None

\* The result of _ensure_storage_room is not looked at.
PrunedNot == {rows}

-----------------------------------------------------------------------------
(* Rendering and anchors. *)

RenderPromptForCache(body) ==
    IF body.path = "completion" THEN body.content ELSE Template(body)

Places(text, marker, start) ==
    {i \in start .. Len(text) - Len(marker) : SubSeq(text, i + 1, i + Len(marker)) = marker}

\* Where the first, the second and so on of count markers end, counting from the left
\* without overlaps; None from the first that is not found.
MarkerEnds(text, marker, count) ==
    LET after[n \in 0 .. count] ==
            IF n = 0 THEN 0
            ELSE IF after[n - 1] = None \/ Places(text, marker, after[n - 1]) = {} THEN None
            ELSE Min(Places(text, marker, after[n - 1])) + Len(marker)
    IN after

\* The end of the occurrence-th marker, or its beginning.
FindMarkerBoundary(text, cfg) ==
    LET k == Len(cfg.marker)
        end == MarkerEnds(text, cfg.marker, cfg.occurrence)[cfg.occurrence]
    IN IF k = 0 \/ cfg.occurrence = 0 \/ end = None THEN None
       ELSE CASE cfg.side = "before" -> end - k
              [] cfg.side = "after" -> end
              [] OTHER -> None

\* The default anchor ends a system or developer message of a chat.
Applies(cfg, body) ==
    cfg.label = "end-of-system-message" =>
        body.path = "chat" /\ body.role \in {"system", "developer"}

AnchorsForPrompt(body, text) ==
    LET Before(cfg) == SubSeq(text, 1, FindMarkerBoundary(text, cfg))
    IN {[cfg |-> cfg, text |-> Before(cfg)] :
            cfg \in {c \in Configs : /\ Applies(c, body)
                                     /\ FindMarkerBoundary(text, c) \notin {None, 0}
                                     /\ Tokenize(Before(c)) # <<>>}}

\* _request_cache_context: nothing is cached of an empty prompt.
HasContext(text) == text # <<>> /\ Tokenize(text) # <<>>

AppendNewline(body) ==
    IF body.extendable THEN [body EXCEPT !.content = Append(@, Newline)] ELSE None

-----------------------------------------------------------------------------
(* Nodes and lookup. *)

PlainNode(tokens) == [tokens |-> tokens, cfg |-> None, text |-> <<>>]

\* An anchor node keeps the text it was prefilled with (meta_json, anchor_text).
AnchorNode(a) == [tokens |-> Tokenize(a.text), cfg |-> a.cfg, text |-> a.text]

\* The longest prefix some row has; a hash stands for the tokens it was made of.
Lookup(tokens, strictlyLess) ==
    LET maxLen == IF strictlyLess THEN Len(tokens) - 1 ELSE Len(tokens)
        found == {n \in rows : Len(n.tokens) <= maxLen /\ IsPrefix(n.tokens, tokens)}
    IN IF found = {} THEN None
       ELSE SubSeq(tokens, 1, Max({Len(n.tokens) : n \in found}))

HasRow(tokens) == \E n \in rows : n.tokens = tokens

\* What _ensure_storage_room may leave: room for one more save.
Pruned == {R \in SUBSET rows : Cardinality(R) < MaxRows}

-----------------------------------------------------------------------------
(* Generated prefixes. *)

\* The text a client was sent; tool calls and the like are not collected.
CapturedResponseText(pieces) ==
    FlattenSeq([i \in 1 .. Len(pieces) |->
                IF pieces[i].field \in {"reasoning_content", "content", "text"}
                  THEN pieces[i].text ELSE <<>>])

\* Up to the first place where they differ, or the end of the shorter.
LcpLen(left, right) ==
    LET limit == Min({Len(left), Len(right)})
    IN Min({limit} \cup {i \in 0 .. limit - 1 : left[i + 1] # right[i + 1]})

\* The tokens of the slot as far as prompt and captured text give the same ones, if
\* that is farther than the prompt; None otherwise.
VerifiedGeneratedPrefixTokens(text, pieces, slot) ==
    LET tokens == Tokenize(text)
        captured == CapturedResponseText(pieces)
        lcp == LcpLen(Tokenize(text \o captured), slot)
    IN IF /\ options.generated
          /\ IsStrictPrefix(tokens, slot)
          /\ captured # <<>>
          /\ lcp > Len(tokens)
         THEN SubSeq(slot, 1, lcp) ELSE None

-----------------------------------------------------------------------------
(* What is given. *)

\* The prompts of bodies, as they are sent or with the newline.
Texts ==
    {RenderPromptForCache(b) :
        b \in Bodies \cup {AppendNewline(c) : c \in {d \in Bodies : d.extendable}}}

ASSUME TextsAssumption == \A t \in Texts : t \in Seq(Chars)
\* The tokenizer is asked for prompts, their beginnings, and prompts with an answer.
ASSUME TokenizeAssumption ==
    \A t \in Texts :
        /\ \A s \in Prefixes(t) : Tokenize(s) \in Seq(Seq(Chars))
        /\ \A pieces \in Responses : Tokenize(t \o CapturedResponseText(pieces)) \in Seq(Seq(Chars))
ASSUME ConfigsAssumption == \A c \in Configs : c.marker \in Seq(Chars) /\ c.occurrence \in Nat
ASSUME ResponsesAssumption ==
    \A pieces \in Responses : pieces \in Seq([field : STRING, text : Seq(Chars)])
ASSUME BoundsAssumption == {MinSave, MaxRows} \subseteq Nat
ASSUME NamesAssumption ==
    /\ None \notin Configs /\ None \notin {"full-prefix", "anchor"}
    /\ None \notin Nat /\ None \notin Seq(Seq(Chars))

-----------------------------------------------------------------------------
Phases == {"idle", "context", "lookup", "anchors", "forward", "save"}

Request(body, text) ==
    [at |-> "context", body |-> body, text |-> text, exact |-> None, todo |-> {},
     restored |-> None, via |-> None, pieces |-> <<>>, slot |-> <<>>]

NoRequest == [Request(None, <<>>) EXCEPT !.at = "idle"]

Tokens == Tokenize(req.text)

At(phase) == req.at = phase

\* Pieces are generated one by one, so they need not be what the tokenizer makes of
\* their text.
Generated(tokens, pieces) == tokens \o [i \in 1 .. Len(pieces) |-> pieces[i].text]

TypeOK ==
    /\ options \in [strict : BOOLEAN, generated : BOOLEAN]
    /\ Cardinality(rows) <= MaxRows + 1
    /\ \A n \in rows : Len(n.tokens) > 0 /\ n.cfg \in Configs \cup {None}
    /\ req.at \in Phases
    /\ ~At("idle") => /\ req.text \in Texts
                      /\ req.todo \subseteq AnchorsForPrompt(req.body, req.text)
                      /\ req.via \in {None, "full-prefix", "anchor"}
                      /\ (req.via = None) <=> (req.restored = None)

Init ==
    /\ options \in [strict : BOOLEAN, generated : BOOLEAN]
    /\ rows = {}
    /\ req = NoRequest

-----------------------------------------------------------------------------
\* The modified context, but the body of the client.
WorkaroundKeepsBody ==
    /\ At("context")
    /\ LET body == AppendNewline(req.body)
           text == RenderPromptForCache(body)
       IN req' = IF options.strict /\ HasRow(Tokens) /\ body # None /\ IsPrefix(Tokens, Tokenize(text))
                   THEN [req EXCEPT !.at = "lookup", !.text = text, !.exact = Tokens]
                   ELSE [req EXCEPT !.at = "lookup"]
    /\ UNCHANGED <<options, rows>>

\* The tokens of the modified prompt are not compared with the first ones.
WorkaroundUnverified ==
    /\ At("context")
    /\ LET body == AppendNewline(req.body)
       IN req' = IF options.strict /\ HasRow(Tokens) /\ body # None
                   THEN [req EXCEPT !.at = "lookup", !.body = body, !.exact = Tokens,
                                    !.text = RenderPromptForCache(body)]
                   ELSE [req EXCEPT !.at = "lookup"]
    /\ UNCHANGED <<options, rows>>

-----------------------------------------------------------------------------
(* One request. *)

\* _request_cache_context.
Arrive(body) ==
    /\ At("idle")
    /\ HasContext(RenderPromptForCache(body))
    /\ req' = Request(body, RenderPromptForCache(body))
    /\ UNCHANGED <<options, rows>>

\* A prompt that is cached to its last token is sent with a newline more, if that
\* leaves its tokens as they are.
Workaround ==
    /\ At("context")
    /\ LET body == AppendNewline(req.body)
           text == RenderPromptForCache(body)
       IN req' = IF /\ options.strict /\ HasRow(Tokens)
                    /\ body # None /\ HasContext(text) /\ IsPrefix(Tokens, Tokenize(text))
                   THEN [req EXCEPT !.at = "lookup", !.body = body, !.text = text, !.exact = Tokens]
                   ELSE [req EXCEPT !.at = "lookup"]
    /\ UNCHANGED <<options, rows>>

\* A hit is restored, or no slot is worth it, or the restore fails.
LookupAndRestorePrefix ==
    /\ At("lookup")
    /\ LET tokens == Lookup(Tokens, options.strict)
       IN IF tokens = None
            THEN req' = [req EXCEPT !.at = "anchors", !.todo = AnchorsForPrompt(req.body, req.text)]
            ELSE \/ req' = [req EXCEPT !.at = "forward", !.restored = tokens, !.via = "full-prefix"]
                 \/ req' = [req EXCEPT !.at = "forward"]
    /\ UNCHANGED <<options, rows>>

\* Anchors are tried from the longest on.
Longest(a) == \A b \in req.todo : Len(Tokenize(b.text)) <= Len(Tokenize(a.text))

Materialized(a) == \E n \in rows : n.cfg # None /\ n.cfg.label = a.cfg.label /\ n.tokens = Tokenize(a.text)

RestoreAnchor(a) ==
    /\ At("anchors")
    /\ a \in req.todo /\ Longest(a)
    /\ \/ Materialized(a) /\ UNCHANGED rows
       \/ ~Materialized(a) /\ \E R \in Pruned : rows' = R \cup {AnchorNode(a)}
    /\ req' = [req EXCEPT !.at = "forward", !.restored = Tokenize(a.text), !.via = "anchor"]
    /\ UNCHANGED options

\* It could not be restored, or not be materialized, or only not be restored then.
SkipAnchor(a) ==
    /\ At("anchors")
    /\ a \in req.todo /\ Longest(a)
    /\ \/ UNCHANGED rows
       \/ ~Materialized(a) /\ \E R \in Pruned : rows' \in {R, R \cup {AnchorNode(a)}}
    /\ req' = [req EXCEPT !.todo = @ \ {a}]
    /\ UNCHANGED options

NoMoreAnchors ==
    /\ At("anchors")
    /\ req.todo = {}
    /\ req' = [req EXCEPT !.at = "forward"]
    /\ UNCHANGED <<options, rows>>

\* The backend evaluates the body it is sent.  The last piece may be generated and
\* not evaluated; the slot that will be saved may be one that others use.
Forward(pieces) ==
    /\ At("forward")
    /\ LET served == Generated(Tokenize(RenderPromptForCache(req.body)), pieces)
           other == {Tokenize(t) : t \in Texts}
       IN \E slot \in {served, Front(served)} \cup other :
            req' = [req EXCEPT !.at = "save", !.pieces = pieces, !.slot = slot]
    /\ UNCHANGED <<options, rows>>

\* _auto_save_prefix_cache.  If the token table of the file cannot be read, only its
\* length is known.
Autosave ==
    /\ At("save")
    /\ Len(Tokens) >= MinSave
    /\ Len(req.slot) >= Len(Tokens)
    /\ \E R \in Pruned, readable \in BOOLEAN :
        LET generated == VerifiedGeneratedPrefixTokens(req.text, req.pieces, req.slot)
        IN /\ readable => IsPrefix(Tokens, req.slot)
           /\ rows' = R \cup {PlainNode(Tokens)}
                        \cup (IF readable /\ generated # None THEN {PlainNode(generated)} ELSE {})
    /\ req' = NoRequest
    /\ UNCHANGED options

\* The forward or the save fails, or there is nothing to save.
NotSaved ==
    /\ req.at \in {"forward", "save"}
    /\ req' = NoRequest
    /\ UNCHANGED <<options, rows>>

\* Other requests and processes.
OthersInsert(body) ==
    /\ Cardinality(rows) < MaxRows
    /\ HasContext(RenderPromptForCache(body))
    /\ LET text == RenderPromptForCache(body)
       IN \E n \in {PlainNode(Tokenize(text))} \cup {AnchorNode(a) : a \in AnchorsForPrompt(body, text)} :
            rows' = rows \cup {n}
    /\ UNCHANGED <<options, req>>

OthersDelete ==
    /\ \E n \in rows : rows' = rows \ {n}
    /\ UNCHANGED <<options, req>>

-----------------------------------------------------------------------------
Next ==
    \/ \E body \in Bodies : Arrive(body) \/ OthersInsert(body)
    \/ Workaround \/ LookupAndRestorePrefix
    \/ \E a \in req.todo : RestoreAnchor(a) \/ SkipAnchor(a)
    \/ NoMoreAnchors \/ Autosave \/ NotSaved \/ OthersDelete
    \/ \E pieces \in Responses : Forward(pieces)

Spec == Init /\ [][Next]_vars

-----------------------------------------------------------------------------
(* Properties *)

\* Without exact restores, what a lookup restores is a strict prefix of what the
\* backend is going to evaluate: of the body that is sent, which is not the one the
\* first context was made of.
FullPrefixIsStrict ==
    options.strict /\ req.via = "full-prefix" =>
        IsStrictPrefix(req.restored, Tokenize(RenderPromptForCache(req.body)))

\* The newline is not sent for nothing: unless the row was deleted since or the
\* template strips the newline, the exact match is found as a strict one.
ExactNodeServes ==
    LET strict == Lookup(Tokens, options.strict)
    IN At("lookup") /\ req.exact # None /\ HasRow(req.exact) /\ Tokens # req.exact =>
        strict # None /\ IsPrefix(req.exact, strict)

\* A materialized anchor serves every later prompt that begins with its text and is
\* of its kind: where a boundary is does not depend on what follows it.
MaterializedAnchorServes ==
    \A n \in rows :
        /\ n.cfg # None /\ ~At("idle")
        /\ Applies(n.cfg, req.body)
        /\ IsPrefix(n.text \o (IF n.cfg.side = "before" THEN n.cfg.marker ELSE <<>>), req.text)
        => \E a \in AnchorsForPrompt(req.body, req.text) : a.cfg = n.cfg /\ a.text = n.text

\* A generated-response node that an autosave adds has exactly the tokens in which the
\* slot agrees with what the client will send back, and has more than the prompt.
GeneratedIsProven ==
    [][\A n \in rows' \ rows :
        At("save") /\ ~(req'.at = "save") /\ n.tokens # Tokens =>
            /\ IsStrictPrefix(Tokens, n.tokens)
            /\ n.tokens = LongestCommonPrefix(
                    {req.slot, Tokenize(req.text \o CapturedResponseText(req.pieces))})]_vars

=============================================================================
