---------------------------- MODULE SharedServices ----------------------------
(***************************************************************************)
(* The services behind the agents: the client of the MCP providers and the *)
(* listing agent that researches with it, the catalog of their read-only   *)
(* tools, the knowledge vault and the imports of reports.                  *)
(*                                                                         *)
(* They share the process and the database, but no row and no lock of one  *)
(* reaches the state of another, and what the listing agent is answered is *)
(* left open, so their steps commute and a behaviour of all is an          *)
(* interleaving of behaviours of each.  It is therefore enough to let one  *)
(* of them run: part is chosen first and the others stay in their initial  *)
(* state.  The client of the MCP providers is extended, the others are     *)
(* instances.                                                              *)
(***************************************************************************)
EXTENDS ProviderCalls, Integers, Sequences, FiniteSets

VARIABLE part       \* the service that runs

-----------------------------------------------------------------------------
CONSTANTS Tasks, Keywords, Drafts, Tiers, MaxRounds, MaxRevisions

\* A record has a relevance in thousandths, 0 when none is given; there is a
\* primary tier.
ListingTask ==
    [facts : BOOLEAN, current : Seq(STRING), competitors : Seq(STRING), seeds : Seq(STRING), type : STRING, name : STRING]
ASSUME ListingAssumption ==
    /\ Tasks \subseteq ListingTask /\ Keywords \subseteq Seq([word : STRING, relevance : Nat])
    /\ Tiers \in Seq(Nat) /\ Tiers # <<>> /\ MaxRounds \in Nat /\ MaxRevisions \in Nat

VARIABLES listing, task, round, pending, fresh, executed, keywords, selected, draft, checked, revision, delivered, sent, heard
listingVars == <<listing, task, round, pending, fresh, executed, keywords, selected, draft, checked, revision, delivered, sent, heard>>
Listing == INSTANCE ListingWorkflow WITH Requests <- Tasks, Replies <- Keywords, request <- task

CONSTANTS CatalogCallers, CatalogTools, CatalogJobs, MaxPublished, MaxCatalogJobs

\* A job names the tools it calls.
ASSUME JobsAssumption == CatalogJobs \subseteq Seq(STRING)

VARIABLES published, catalog, job, ended, started
catalogVars == <<published, catalog, job, ended, started>>
Catalog == INSTANCE CatalogCalls WITH
    Callers <- CatalogCallers, Allowed <- CatalogTools, Jobs <- CatalogJobs, MaxJobs <- MaxCatalogJobs,
    outcome <- ended, jobs <- started

CONSTANTS Uploads, Zips, MaxMembers, MaxNotes, MaxChunk, MaxCandidates, MaxFound, Terms

\* Versions are numbered in the order of uploaded_at; a chunk holds a character, and
\* a search finds a chunk, at least.
VaultCharacter == [letter : STRING, first : BOOLEAN]
VaultText == Seq(VaultCharacter)
VaultLine == [heading : BOOLEAN, text : VaultText]
VaultMember == [path : VaultText, about : SUBSET VaultText, kind : STRING, body : Seq(VaultLine)]
ASSUME UploadsAssumption ==
    /\ IsFiniteSet(Uploads) /\ Uploads = 1..Cardinality(Uploads)
    /\ Zips \subseteq Seq(VaultMember) /\ MaxChunk \in Nat \ {0} /\ MaxCandidates \in Nat /\ MaxFound \in Nat \ {0}
    /\ Terms \subseteq Seq(STRING)

VARIABLES version, index, zip, archived, stage, seen, answer, asked
knowledgeVars == <<version, index, zip, archived, stage, seen, answer, asked>>
Knowledge == INSTANCE TeamKnowledge

CONSTANTS Imports, Reports, MaxRows

\* A file is a sequence of rows; a row has every field, most of them empty.
ReportRow == [kind : STRING, campaign : STRING, group : STRING, keyword : STRING, target : STRING, term : STRING,
              match : STRING, bought : STRING, placement : STRING, asin : STRING, sku : STRING]
ASSUME ReportsAssumption == Reports \subseteq [given : STRING, headers : SUBSET STRING, rows : Seq(ReportRow)]

VARIABLES report, importing, overwritten, upserted, table, committed, told
importVars == <<report, importing, overwritten, upserted, table, committed, told>>
Import == INSTANCE ReportImports WITH Files <- Reports

-----------------------------------------------------------------------------
Parts == {"provider", "listing", "catalog", "knowledge", "import"}

InitServices ==
    /\ part \in Parts
    /\ Init /\ Listing!Init /\ Catalog!Init /\ Knowledge!Init /\ Import!Init

NextServices ==
    /\ UNCHANGED part
    /\ part # "provider"  => UNCHANGED vars
    /\ part # "listing"   => UNCHANGED listingVars
    /\ part # "catalog"   => UNCHANGED catalogVars
    /\ part # "knowledge" => UNCHANGED knowledgeVars
    /\ part # "import"    => UNCHANGED importVars
    /\ \/ part = "provider" /\ Next
       \/ part = "listing" /\ Listing!Next
       \/ part = "catalog" /\ Catalog!Next
       \/ part = "knowledge" /\ Knowledge!Next
       \/ part = "import" /\ Import!Next

servicesVars == <<part, vars, listingVars, catalogVars, knowledgeVars, importVars>>
Services == InitServices /\ [][NextServices]_servicesVars

-----------------------------------------------------------------------------
(* The listing agent: research is kept, and the copy delivered rests on it.  *)
ListingSound == Listing!ListingSound

(* Catalog calls: one more lookup is enough, and nothing but reads is sent.  *)
CatalogSound == Catalog!CatalogSound

(* The knowledge vault: one active version, and answers that are true of it. *)
VaultVersions == Knowledge!VaultVersions

(* The knowledge vault: what is active is complete and is found.             *)
VaultSound == Knowledge!VaultSound

(* Report imports: the shared rows are those of whole imports in a row.      *)
ImportsSound == Import!ImportsSound
=============================================================================
