----------------------------- MODULE TeamKnowledge -----------------------------
(***************************************************************************)
(* The knowledge vault of the team: a ZIP of Markdown notes becomes a      *)
(* candidate version, is indexed, and takes the place of the active        *)
(* version (team_knowledge.py with the PostgreSQL store; api.py 967).      *)
(*                                                                         *)
(* A ZIP is a sequence of members; a note is a sequence of lines, a line a *)
(* heading or not, with its text.  A text is a sequence of characters, of  *)
(* which each has a letter (case is folded) and may be the first of a word:*)
(* so the blanks between words, which are stripped and normalised, need no *)
(* character of their own.  Any statement of the database and the write of *)
(* the archive may fail; the process may die between two of them.          *)
(***************************************************************************)
EXTENDS Naturals, Sequences, FiniteSets, Functions, Selections

CONSTANTS
    Uploads,        \* 1..n, the versions in the order of uploaded_at
    Zips,           \* bound: the files that may be uploaded
    MaxMembers,     \* MAX_ARCHIVE_MEMBERS
    MaxNotes,       \* MAX_MARKDOWN_FILES
    MaxChunk,       \* MAX_CHUNK_CHARS, the blanks not counted
    MaxCandidates,  \* MAX_POSTGRES_CANDIDATES
    MaxFound,       \* MAX_RETRIEVAL_CHUNKS
    Terms           \* bound: the words a chat asks for, each the sequence of its letters

VARIABLES
    version,        \* the row of each upload in team_knowledge_versions
    index,          \* the chunks stored for it
    zip,            \* the file uploaded
    archived,       \* the versions whose ZIP is in archive_dir
    stage,          \* how far the upload is
    seen,           \* the active versions its activation found
    answer,         \* what its caller was told
    asked           \* the last question of a chat, and what was found

vars == <<version, index, zip, archived, stage, seen, answer, asked>>

Init ==
    /\ version = [u \in Uploads |-> "none"]
    /\ index = [u \in Uploads |-> <<>>]
    /\ zip = [u \in Uploads |-> <<>>]
    /\ archived = {}
    /\ stage = [u \in Uploads |-> "waiting"]
    /\ seen = [u \in Uploads |-> {}]
    /\ answer = [u \in Uploads |-> <<"none", {}>>]
    /\ asked = [at |-> "none"]

-----------------------------------------------------------------------------
(* The notes of a ZIP.  A member has a path, a kind, the texts that speak    *)
(* about it (title, tags, wiki links, keys and values of the frontmatter),   *)
(* and the lines of a note.                                                  *)
Passed == {"directory", "symlink"}                  \* not looked at
Skipped == {"hidden", "other"}                      \* not a note of the vault
Note(m) == m.kind \notin Passed \cup Skipped
Document(m) == Note(m) /\ m.body # <<>>

Duplicate(z) ==
    \E i, j \in DOMAIN z : i < j /\ Note(z[i]) /\ Note(z[j]) /\ z[i].path = z[j].path
(* The limit is looked at before the note is read: an empty note behind the  *)
(* last one allowed is refused too.                                          *)
TooMany(z) ==
    \E i \in DOMAIN z : Note(z[i]) /\ Cardinality({j \in 1..(i - 1) : Document(z[j])}) >= MaxNotes
Refused(z) ==
    \/ Len(z) > MaxMembers
    \/ \E i \in DOMAIN z : z[i].kind \in {"unsafe", "encrypted", "corrupted"}
    \/ Duplicate(z)
    \/ TooMany(z)
    \/ ~\E i \in DOMAIN z : Document(z[i])

(* A buffer is cut into pieces of at most MaxChunk characters, wherever the  *)
(* words end: a word that a cut goes through is in neither piece.            *)
BarePiece(doc, heading, text) ==                    \* mutated form of Piece
    [path |-> doc.path, about |-> {}, heading |-> heading, text |-> text]
Piece(doc, heading, text) == [path |-> doc.path, about |-> doc.about, heading |-> heading, text |-> text]
FullPieces(doc, heading, text) ==                   \* mutated form of Pieces
    [k \in 1..(Len(text) \div MaxChunk) |-> Piece(doc, heading, SubSeq(text, (k - 1) * MaxChunk + 1, k * MaxChunk))]
Pieces(doc, heading, text) ==
    [k \in 1..((Len(text) + MaxChunk - 1) \div MaxChunk) |->
        Piece(doc, heading, SubSeq(text, (k - 1) * MaxChunk + 1,
                                   IF k * MaxChunk < Len(text) THEN k * MaxChunk ELSE Len(text)))]

(* Lines gather in the buffer until the next heading; what is left after the *)
(* last line is cut as well.                                                 *)
Line(doc, at, line) ==
    IF line.heading
    THEN [chunks |-> at.chunks \o Pieces(doc, at.heading, at.buffer), heading |-> line.text, buffer |-> <<>>]
    ELSE [at EXCEPT !.buffer = @ \o line.text]
Gathered(doc) ==
    LET at[n \in 0..Len(doc.body)] ==
            IF n = 0 THEN [chunks |-> <<>>, heading |-> <<>>, buffer |-> <<>>] ELSE Line(doc, at[n - 1], doc.body[n])
    IN at[Len(doc.body)]
Chunks(doc) ==
    LET end == Gathered(doc) IN end.chunks \o Pieces(doc, end.heading, end.buffer)
Index(z) == Joined([i \in DOMAIN z |-> IF Document(z[i]) THEN Chunks(z[i]) ELSE <<>>])

-----------------------------------------------------------------------------
(* The upload.  Its handler is a coroutine that does not yield while it      *)
(* indexes, so a process has one upload in hand.                             *)
Step(u, from, to) == stage[u] = from /\ stage' = [stage EXCEPT ![u] = to]
InHand == {u \in Uploads : stage[u] \notin {"waiting", "done"}}
TurnOfAny(u) == \A w \in Uploads : w < u => stage[w] # "waiting"     \* mutated form of Turn
Turn(u) == InHand = {} /\ \A w \in Uploads : w < u => stage[w] = "done"

Answer(u, what) == answer' = [answer EXCEPT ![u] = what]
Told(u, what) == Answer(u, <<what, {}>>)

CreateCandidate(u) ==
    /\ Turn(u)
    /\ \E z \in Zips : zip' = [zip EXCEPT ![u] = z]
    /\ \/ Step(u, "waiting", "parse") /\ version' = [version EXCEPT ![u] = "indexing"] /\ UNCHANGED answer
       \/ Step(u, "waiting", "done") /\ Told(u, "unavailable") /\ UNCHANGED version
    /\ UNCHANGED <<index, archived, seen, asked>>

(* _parse_vault, _build_chunks and the write of the archive, which can fail. *)
Parse(u) ==
    /\ IF Refused(zip[u])
       THEN Step(u, "parse", "rejecting") /\ UNCHANGED archived
       ELSE \/ Step(u, "parse", "replace") /\ archived' = archived \cup {u}
            \/ Step(u, "parse", "failing") /\ \E left \in {{}, {u}} : archived' = archived \cup left
    /\ UNCHANGED <<version, index, zip, seen, answer, asked>>

Replace(u) ==
    /\ \/ Step(u, "replace", "activate") /\ index' = [index EXCEPT ![u] = Index(zip[u])]
       \/ Step(u, "replace", "failing") /\ UNCHANGED index
    /\ UNCHANGED <<version, zip, archived, seen, answer, asked>>

(* One transaction: the rows that are active when it begins are archived,    *)
(* the candidate becomes active; a failure undoes both.                      *)
Begin(u) ==
    /\ Step(u, "activate", "commit")
    /\ seen' = [seen EXCEPT ![u] = {w \in Uploads : version[w] = "active"}]
    /\ UNCHANGED <<version, index, zip, archived, answer, asked>>

Replaced(u) == [w \in Uploads |-> IF w \in seen[u] /\ version[w] = "active" THEN "archived" ELSE version[w]]
RolledBack(u) == version

Activate(u) ==
    /\ \/ Step(u, "commit", "status") /\ version[u] = "indexing" /\ version' = [Replaced(u) EXCEPT ![u] = "active"]
       \/ Step(u, "commit", "failing") /\ version' = RolledBack(u)
    /\ UNCHANGED <<index, zip, archived, seen, answer, asked>>

(* What status() shows: the newest active version, else the newest candidate.*)
Newest(state) ==
    LET S == {w \in Uploads : version[w] = state} IN
    IF S = {} THEN {} ELSE {CHOOSE w \in S : \A x \in S : x <= w}
Shown == IF Newest("active") # {} THEN <<"active", Newest("active")>>
         ELSE IF Newest("indexing") # {} THEN <<"indexing", Newest("indexing")>> ELSE <<"empty", {}>>

Report(u) ==
    /\ \/ Step(u, "status", "done") /\ Answer(u, Shown)
       \/ Step(u, "status", "failing") /\ UNCHANGED answer
    /\ UNCHANGED <<version, index, zip, archived, seen, asked>>

(* The archive is removed and the row marked, unless it is active already;   *)
(* the database may refuse that too.                                         *)
Fail(u) ==
    /\ \E told \in {<<"rejecting", "rejected">>, <<"failing", "unavailable">>} :
          \/ /\ Step(u, told[1], "done") /\ Told(u, told[2])
             /\ version' = [version EXCEPT ![u] = IF @ = "indexing" THEN "failed" ELSE @]
          \/ Step(u, told[1], "done") /\ Told(u, "error") /\ UNCHANGED version
    /\ archived' = archived \ {u}
    /\ UNCHANGED <<index, zip, seen, asked>>

(* The process dies; a transaction that was not committed is undone.         *)
Crash ==
    /\ InHand # {}
    /\ stage' = [u \in Uploads |-> IF u \in InHand THEN "done" ELSE stage[u]]
    /\ answer' = [u \in Uploads |-> IF u \in InHand THEN <<"lost", {}>> ELSE answer[u]]
    /\ UNCHANGED <<version, index, zip, archived, seen, asked>>

-----------------------------------------------------------------------------
(* A chat asks for a word while an upload goes on: search() looks at the     *)
(* status first, and reads the active version with a second query.  Either   *)
(* may fail, and then nothing is found.                                      *)
FoundNothing(w) == [at |-> "told", word |-> w, of |-> {}, found |-> <<>>]

AskStatus ==
    /\ asked.at = "none"
    /\ \E w \in Terms :
          \/ Shown[1] = "active" /\ asked' = [at |-> "active", word |-> w]
          \/ asked' = FoundNothing(w)
    /\ UNCHANGED <<version, index, zip, archived, stage, seen, answer>>

(* Where a word stands in a text, alone or as a part of another word.        *)
StandsAt(w, text, i) ==
    /\ i + Len(w) - 1 <= Len(text)
    /\ \A k \in DOMAIN w : text[i + k - 1].letter = w[k] /\ (k > 1 => ~text[i + k - 1].first)
In(w, text) == \E i \in DOMAIN text : StandsAt(w, text, i)
Alone(w, text) ==
    \E i \in DOMAIN text :
        /\ StandsAt(w, text, i)
        /\ i = 1 \/ text[i].first
        /\ i + Len(w) > Len(text) \/ text[i + Len(w)].first

(* What a chunk is searched by, and what a question of one word scores.      *)
Fields(c) == {c.path, c.heading, c.text} \cup c.about
Has(c, w) == \E field \in Fields(c) : In(w, field)
Score(c, w) ==
    (IF In(w, c.path) THEN 100 + 25 ELSE 0)
    + (IF In(w, c.heading) THEN 90 + 22 ELSE 0)
    + (IF In(w, c.text) THEN 25 + 5 ELSE IF Has(c, w) THEN 8 ELSE 0)
    + (IF \E field \in Fields(c) : Alone(w, field) THEN 30 ELSE 0)

(* The database gives the chunks that have the word and others like it, the  *)
(* most similar ones first, and of them MaxCandidates at most.  How similar  *)
(* a chunk is is left open.                                                  *)
Candidates(chunks, w) ==
    {C \in SUBSET DOMAIN chunks :
        /\ Cardinality(C) <= MaxCandidates
        /\ {k \in DOMAIN chunks : Has(chunks[k], w)} \subseteq C \/ Cardinality(C) = MaxCandidates}

(* Of the candidates that score, the best, the first of them first.          *)
Ranked(chunks, w, C) ==
    LET scoring == {k \in C : Score(chunks[k], w) > 0}
        length == IF Cardinality(scoring) < MaxFound THEN Cardinality(scoring) ELSE MaxFound
    IN {s \in [1..length -> scoring] :
          /\ \A i, j \in 1..length : i < j => s[i] # s[j] /\ Score(chunks[s[i]], w) >= Score(chunks[s[j]], w)
          /\ \A k \in scoring \ Range(s) : \A i \in 1..length : Score(chunks[s[i]], w) >= Score(chunks[k], w)}

Active == {u \in Uploads : version[u] = "active"}
Search ==
    /\ asked.at = "active"
    /\ LET chunks == Joined([u \in Uploads |-> IF u \in Active THEN index[u] ELSE <<>>]) IN
       \/ \E C \in Candidates(chunks, asked.word) : \E s \in Ranked(chunks, asked.word, C) :
             asked' = [at |-> "told", word |-> asked.word, of |-> Active, found |-> [i \in DOMAIN s |-> chunks[s[i]]]]
       \/ asked' = FoundNothing(asked.word)
    /\ UNCHANGED <<version, index, zip, archived, stage, seen, answer>>

Next ==
    \/ \E u \in Uploads : CreateCandidate(u) \/ Parse(u) \/ Replace(u) \/ Begin(u) \/ Activate(u) \/ Report(u) \/ Fail(u)
    \/ Crash
    \/ AskStatus \/ Search

Spec == Init /\ [][Next]_vars

-----------------------------------------------------------------------------
(* Whatever fails or dies, there is one active version at most, and once     *)
(* there is one the knowledge base is never without one.                     *)
OneActive ==
    /\ \A u, w \in Uploads : version[u] = "active" /\ version[w] = "active" => u = w
    /\ (\E u \in Uploads : version[u] = "archived") => \E u \in Uploads : version[u] = "active"

(* An active version is a complete index of its ZIP: each line of a note can *)
(* be found in chunks of the note that stand under its heading, in order.    *)
Under(doc, i, heading) ==
    LET above == {j \in 1..i : doc.body[j].heading} IN
    /\ ~doc.body[i].heading
    /\ heading = IF above = {} THEN <<>> ELSE doc.body[CHOOSE j \in above : \A k \in above : k <= j].text
Text(doc, heading) == Joined([i \in DOMAIN doc.body |-> IF Under(doc, i, heading) THEN doc.body[i].text ELSE <<>>])
Stored(chunks, path, heading) ==
    Joined([k \in DOMAIN chunks |-> IF chunks[k].path = path /\ chunks[k].heading = heading THEN chunks[k].text ELSE <<>>])
VaultComplete ==
    \A u \in Uploads : version[u] = "active" =>
        \A i \in DOMAIN zip[u] : Document(zip[u][i]) =>
            \A heading \in {<<>>} \cup {zip[u][i].body[k].text : k \in {j \in DOMAIN zip[u][i].body : zip[u][i].body[j].heading}} :
                Stored(index[u], zip[u][i].path, heading) = Text(zip[u][i], heading)

(* The answer is true: success names the version of the caller itself, and   *)
(* an upload refused for its content is never active and leaves no archive.  *)
VaultAnswers ==
    \A u \in Uploads :
        /\ answer[u][1] \notin {"none", "lost", "error", "unavailable", "rejected"} =>
              answer[u] = <<"active", {u}>> /\ u \in archived
        /\ answer[u][1] = "rejected" => version[u] = "failed" /\ u \notin archived
(* What a search finds is of the version that was active when it read the    *)
(* chunks, though another takes its place meanwhile, and has the word in its *)
(* text, under its heading, in its path or in what its note says of itself.  *)
(* It finds something if so few chunks of that version are without the word  *)
(* that they cannot take the place of all others among the candidates, and   *)
(* either a chunk has the word or a note with some text says it of itself.   *)
SaysItself(doc, w) ==
    /\ Document(doc) /\ \E j \in DOMAIN doc.body : ~doc.body[j].heading /\ doc.body[j].text # <<>>
    /\ \E field \in {doc.path} \cup doc.about : In(w, field)
SearchFinds ==
    asked.at = "told" =>
        /\ \A i \in DOMAIN asked.found : Has(asked.found[i], asked.word) /\ \E u \in asked.of : asked.found[i] \in Range(index[u])
        /\ \A u \in asked.of :
              /\ Cardinality({k \in DOMAIN index[u] : ~Has(index[u][k], asked.word)}) < MaxCandidates
              /\ \/ \E k \in DOMAIN index[u] : Has(index[u][k], asked.word)
                 \/ \E i \in DOMAIN zip[u] : SaysItself(zip[u][i], asked.word)
              => asked.found # <<>>

(* Versions and answers, whatever fails or dies between two statements.      *)
VaultVersions == OneActive /\ VaultAnswers

(* What is active is complete and is found, while versions change.           *)
VaultSound == VaultComplete /\ SearchFinds
=============================================================================
