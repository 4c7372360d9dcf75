---------------------------- MODULE PortalSearch ----------------------------
(***************************************************************************)
(* Search in a doc's portal: the deploy worker replaces the branch's       *)
(* documents in the index, in two requests, by those of the version that   *)
(* got ready; the search box of a page asks for hits of the page's         *)
(* version, and takes whichever answer comes last.                         *)
(*                                                                         *)
(* Sources: backend search, versions-worker.ts; frontend                   *)
(* widgets/search-box, app/api/search, shared/api/portal-client.ts.        *)
(***************************************************************************)
EXTENDS Naturals, Sequences

CONSTANTS Operations,  \* operations, each by its path, method and operationId
          Queries,     \* subsets of Operations, each the set of operations whose text it is part of
          OrgId, DocId, BranchId,        \* the ids of their rows
          OrgSlug, DocSlug, BranchSlug,  \* the slugs of their URLs
          Tokens,      \* API tokens a search may carry: their organization, or none
          SearchCalls, \* searches under way at a time
          MaxReady     \* bound: versions that get ready

NoPage == 0
RowScope == [org |-> OrgId, doc |-> DocId, branch |-> BranchId]
SlugScope == [org |-> OrgSlug, doc |-> DocSlug, branch |-> BranchSlug]

VARIABLES specs,       \* the operations of each ready version
          indexing,    \* how far the worker is with each version's documents
          index,       \* the documents of the index
          visibility,  \* of the doc
          page,        \* the version the page shows
          searchCall,  \* where each search stands
          results      \* the hits under the search box

searchVars == <<specs, indexing, index, visibility, page, searchCall, results>>

Versions == DOMAIN specs
IdleSearch == [pc |-> "idle", query |-> {}, version |-> NoPage, hits |-> {}]
------------------------------------------------------------------------------
\* extractOpenApiSearchDocuments: one document of each operation, under the ids of the version's row.
SearchDocuments(v) == {[scope |-> RowScope, version |-> v, operation |-> o] : o \in specs[v]}

VersionReady ==
    /\ Len(specs) < MaxReady
    /\ \E operations \in SUBSET Operations : specs' = Append(specs, operations)
    /\ indexing' = Append(indexing, "begun")
    /\ UNCHANGED <<index, visibility, page, searchCall, results>>

\* replaceVersionDocuments: the whole branch is deleted; a request that fails ends it.
DeleteDocuments(v) ==
    /\ indexing[v] = "begun"
    /\ \/ /\ index' = {d \in index : d.scope # RowScope}
          /\ indexing' = [indexing EXCEPT ![v] = IF SearchDocuments(v) = {} THEN "done" ELSE "deleted"]
       \/ index' = index /\ indexing' = [indexing EXCEPT ![v] = "failed"]
    /\ UNCHANGED <<specs, visibility, page, searchCall, results>>

AddDocuments(v) ==
    /\ indexing[v] = "deleted"
    /\ \/ index' = index \union SearchDocuments(v) /\ indexing' = [indexing EXCEPT ![v] = "done"]
       \/ index' = index /\ indexing' = [indexing EXCEPT ![v] = "failed"]
    /\ UNCHANGED <<specs, visibility, page, searchCall, results>>

\* The filter of search: organization, doc, branch and version, as the request names them.
Hits(scope, v, query) == {d.operation : d \in {e \in index : e.scope = scope /\ e.version = v /\ e.operation \in query}}
------------------------------------------------------------------------------
OpenSearchPage ==
    /\ \E v \in Versions : page' = v
    /\ results' = {}
    /\ searchCall' = [c \in SearchCalls |-> IdleSearch]
    /\ UNCHANGED <<specs, indexing, index, visibility>>

SubmitSearch(c, query) ==
    /\ page # NoPage /\ searchCall[c].pc = "idle"
    /\ searchCall' = [searchCall EXCEPT ![c] = [pc |-> "sent", query |-> query, version |-> page, hits |-> {}]]
    /\ UNCHANGED <<specs, indexing, index, visibility, page, results>>

\* A token of this organization, or no valid one and a public doc.
IsAuthorized(tokenOrg) ==
    IF tokenOrg = "none" THEN visibility = "public" ELSE tokenOrg = SlugScope.org

ServeSearch(c) ==
    /\ searchCall[c].pc = "sent"
    /\ \E tokenOrg \in Tokens :
           searchCall' = [searchCall EXCEPT
               ![c].pc = IF IsAuthorized(tokenOrg) THEN "answered" ELSE "refused",
               ![c].hits = IF IsAuthorized(tokenOrg)
                            THEN Hits(SlugScope, searchCall[c].version, searchCall[c].query) ELSE {}]
    /\ UNCHANGED <<specs, indexing, index, visibility, page, results>>

\* setResults of the answer, also when a later search was answered before; a refusal throws.
SearchAnswered(c) ==
    /\ searchCall[c].pc \in {"answered", "refused"}
    /\ results' = IF searchCall[c].pc = "answered" THEN searchCall[c].hits ELSE results
    /\ searchCall' = [searchCall EXCEPT ![c] = IdleSearch]
    /\ UNCHANGED <<specs, indexing, index, visibility, page>>
------------------------------------------------------------------------------
SearchInit ==
    /\ specs = <<>> /\ indexing = <<>> /\ index = {}
    /\ visibility \in {"public", "private"}
    /\ page = NoPage /\ results = {}
    /\ searchCall = [c \in SearchCalls |-> IdleSearch]

SearchNext ==
    \/ VersionReady
    \/ \E v \in Versions : DeleteDocuments(v) \/ AddDocuments(v)
    \/ OpenSearchPage
    \/ \E c \in SearchCalls : \/ \E query \in Queries : SubmitSearch(c, query)
                              \/ ServeSearch(c) \/ SearchAnswered(c)

SearchSpec == SearchInit /\ [][SearchNext]_searchVars
------------------------------------------------------------------------------
(* Once the documents of a version are in the index, and while no other version replaces them,
   a search on that version's page for any of its operations finds it. *)
SearchFindsOperations ==
    \A v \in Versions :
        indexing[v] = "done" /\ (\A w \in Versions : w # v => indexing[w] = "begun") =>
            \A o \in specs[v] : o \in Hits(SlugScope, v, Operations)
=============================================================================
