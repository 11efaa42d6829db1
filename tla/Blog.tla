-------------------------------- MODULE Blog --------------------------------
(***************************************************************************)
(* The posts of the blog: the page that lists, publishes and deletes them, *)
(* the editor, and the website, which merges them with the posts that were *)
(* built into it.                                                          *)
(*                                                                         *)
(* These pages ask Supabase from the browser: calls[t] is a set, and what  *)
(* is in it may be answered in any order.  Two equal calls count as one.   *)
(* A text is a number and stands for all that a post says, its cover too.  *)
(***************************************************************************)
EXTENDS Integers, FiniteSets

CONSTANTS
    Tab,
    Slug,         \* the keys of the posts
    MaxText,      \* bound: different texts
    MaxCalls      \* bound: calls of a tab under way

None == "none"
Text == 0..MaxText               \* 0 is a post without content
NoText == -1
File == -2                       \* the text of a post that is built in
Posts == [Slug -> Text \cup {NoText, File}]
NoPosts == [s \in Slug |-> NoText]

VARIABLES
    post,         \* the rows of blog_posts
    public,       \* ghost: the texts that an editor ever published
    reader,       \* a tab of the website, with the module state of lib/blog.ts
    page, calls   \* the tabs of the dashboard

vars == <<post, public, reader, page, calls>>

Row == [status : {None, "draft", "published"}, text : Text]
NoRow == [status |-> None, text |-> 0]
Filter == {"all", "published", "draft"}
Page == [at : {"list"}, filter : Filter, listed : [Slug -> {None, "draft", "published"}],
         loading : BOOLEAN, deleting : Slug \cup {None}]
        \cup [at : {"editor"}, slug : Slug, text : Text, saving : BOOLEAN, uploading : BOOLEAN]
\* `static` are the posts that the website was built with.
Reader == [static : SUBSET Slug, cache : Posts, fetching : BOOLEAN, at : Slug \cup {"list"},
           view : Posts, status : {"loading", "ready", "missing", "crashed"}]

Call(t, c) == Cardinality(calls[t]) < MaxCalls /\ calls' = [calls EXCEPT ![t] = @ \cup {c}]
Answer(t, c) == calls' = [calls EXCEPT ![t] = @ \ {c}]
\* What a page does with an answer, if it is still there.
Then(t, c, p) == page' = IF c.here THEN [page EXCEPT ![t] = p] ELSE page
Left(t) == {[c EXCEPT !.here = FALSE] : c \in calls[t]}

-----------------------------------------------------------------------------
(* The list                                                                 *)

Fresh(filter) == [at |-> "list", filter |-> filter, listed |-> [s \in Slug |-> None],
                  loading |-> TRUE, deleting |-> None]
LoadAll(filter) == [fn |-> "load", filter |-> filter, here |-> TRUE]
Rows(t, s) == page[t].at = "list" /\ ~page[t].loading /\ page[t].listed[s] # None

OpenList(t) ==
    /\ page[t].at = "editor" /\ Cardinality(calls[t]) < MaxCalls
    /\ page' = [page EXCEPT ![t] = Fresh("all")]
    /\ calls' = [calls EXCEPT ![t] = Left(t) \cup {LoadAll("all")}]
    /\ UNCHANGED <<post, public, reader>>
SetFilter(t, filter) ==
    /\ page[t].at = "list" /\ page[t].filter # filter
    /\ page' = [page EXCEPT ![t].filter = filter, ![t].loading = TRUE]
    /\ Call(t, LoadAll(filter))
    /\ UNCHANGED <<post, public, reader>>
\* None after an error.  The answer to an earlier filter is taken too.
Loaded(t) ==
    /\ \E c \in calls[t] :
          /\ c.fn = "load"
          /\ LET list == [s \in Slug |-> IF c.filter \in {"all", post[s].status}
                                         THEN post[s].status ELSE None] IN
             \E rows \in {list, [s \in Slug |-> None]} :
                Then(t, c, [page[t] EXCEPT !.listed = rows, !.loading = FALSE])
          /\ Answer(t, c)
    /\ UNCHANGED <<post, public, reader>>

\* The button is never disabled, and asks for the opposite of what is listed.
TogglePublish(t, s) ==
    /\ Rows(t, s)
    /\ Call(t, [fn |-> "toggle", slug |-> s, here |-> TRUE,
                to |-> IF page[t].listed[s] = "draft" THEN "published" ELSE "draft"])
    /\ UNCHANGED <<post, public, reader, page>>
\* The page shows what it asked for, whatever came of it.
Toggled(t) ==
    /\ \E c \in calls[t] :
          /\ c.fn = "toggle"
          /\ \/ /\ post[c.slug].status # None
                /\ post' = [post EXCEPT ![c.slug].status = c.to]
                /\ public' = public \cup {<<c.slug, post[c.slug].text>> : x \in {c.to} \cap {"published"}}
             \/ UNCHANGED <<post, public>>
          /\ Then(t, c, [page[t] EXCEPT !.listed[c.slug] = IF @ = None THEN None ELSE c.to])
          /\ Answer(t, c)
    /\ UNCHANGED reader

HandleDelete(t, s) ==
    /\ Rows(t, s) /\ page[t].deleting # s
    /\ page' = [page EXCEPT ![t].deleting = s]
    /\ Call(t, [fn |-> "delete", slug |-> s, here |-> TRUE])
    /\ UNCHANGED <<post, public, reader>>
Deleted(t) ==
    /\ \E c \in calls[t] :
          /\ c.fn = "delete"
          /\ post' \in {post, [post EXCEPT ![c.slug] = NoRow]}
          /\ Then(t, c, [page[t] EXCEPT !.listed[c.slug] = None, !.deleting = None])
          /\ Answer(t, c)
    /\ UNCHANGED <<public, reader>>

-----------------------------------------------------------------------------
(* The editor                                                               *)

\* For a post that is listed, which is fetched anew, or for a new one.
OpenEditor(t, s) ==
    /\ page[t].at = "list" /\ Cardinality(calls[t]) < MaxCalls
    /\ page' = [page EXCEPT ![t] =
           [at |-> "editor", slug |-> s, text |-> 0, saving |-> FALSE, uploading |-> FALSE]]
    /\ calls' = [calls EXCEPT ![t] = Left(t) \cup
           IF page[t].listed[s] = None THEN {} ELSE {[fn |-> "open", slug |-> s, here |-> TRUE]}]
    /\ UNCHANGED <<post, public, reader>>
\* What was typed meanwhile is overwritten.
Opened(t) ==
    /\ \E c \in calls[t] :
          /\ c.fn = "open"
          /\ \/ /\ post[c.slug].status # None
                /\ Then(t, c, [page[t] EXCEPT !.slug = c.slug, !.text = post[c.slug].text])
             \/ page' = page
          /\ Answer(t, c)
    /\ UNCHANGED <<post, public, reader>>

\* The fields of the form, the slug among them: it may be that of another post.
Type(t, s, text) ==
    /\ page[t].at = "editor"
    /\ page' = [page EXCEPT ![t].slug = s, ![t].text = text]
    /\ UNCHANGED <<post, public, reader, calls>>

\* A cover, or an image in the content; neither input is ever disabled.
HandleImageUpload(t) ==
    /\ page[t].at = "editor"
    /\ page' = [page EXCEPT ![t].uploading = TRUE]
    /\ Call(t, [fn |-> "upload", here |-> TRUE])
    /\ UNCHANGED <<post, public, reader>>
Uploaded(t) ==
    /\ \E c \in calls[t] :
          /\ c.fn = "upload"
          /\ \E text \in Text : Then(t, c, [page[t] EXCEPT !.uploading = FALSE, !.text = text])
          /\ Answer(t, c)
    /\ UNCHANGED <<post, public, reader>>

\* Both buttons are disabled until one is done.
HandleSave(t, status) ==
    /\ page[t].at = "editor" /\ ~page[t].saving
    /\ status = "published" => page[t].text # 0
    /\ page' = [page EXCEPT ![t].saving = TRUE]
    /\ Call(t, [fn |-> "save", slug |-> page[t].slug, text |-> page[t].text, status |-> status,
                here |-> TRUE])
    /\ UNCHANGED <<post, public, reader>>
\* An upsert, of whatever is at the slug; or an error.
Saved(t) ==
    /\ \E c \in calls[t] :
          /\ c.fn = "save"
          /\ \/ /\ post' = [post EXCEPT ![c.slug] = [status |-> c.status, text |-> c.text]]
                /\ public' = public \cup {<<c.slug, c.text>> : x \in {c.status} \cap {"published"}}
             \/ UNCHANGED <<post, public>>
          /\ Then(t, c, [page[t] EXCEPT !.saving = FALSE])
          /\ Answer(t, c)
    /\ UNCHANGED reader

-----------------------------------------------------------------------------
(* The website                                                              *)

MergePosts(static, db) ==
    [s \in Slug |-> IF db[s] # NoText THEN db[s] ELSE IF s \in static THEN File ELSE NoText]
\* The posts that are known without waiting: until the first answer, those built in.
GetAllPosts == MergePosts(reader.static, reader.cache)

VisitList ==
    /\ reader.status # "crashed" /\ reader.at # "list"
    /\ reader' = [reader EXCEPT !.at = "list", !.view = GetAllPosts, !.status = "ready"]
    /\ UNCHANGED <<post, public, page, calls>>
\* A post that is known is shown, also when a newer one is in the table.
VisitPost(s) ==
    /\ reader.status # "crashed" /\ reader.at # s
    /\ reader' = [reader EXCEPT !.at = s, !.view = [NoPosts EXCEPT ![s] = GetAllPosts[s]],
                                !.status = IF GetAllPosts[s] # NoText THEN "ready"
                                           ELSE IF reader.fetching THEN "loading" ELSE "missing"]
    /\ UNCHANGED <<post, public, page, calls>>
\* The tab is loaded anew, and the module with it, which begins to fetch.
Visit(static, s) ==
    [static |-> static, cache |-> NoPosts, fetching |-> TRUE, at |-> s,
     view |-> [NoPosts EXCEPT ![s] = MergePosts(static, NoPosts)[s]],
     status |-> IF s \in static THEN "ready" ELSE "loading"]
Reload ==
    /\ \E s \in Slug : reader' = Visit(reader.static, s)
    /\ UNCHANGED <<post, public, page, calls>>

\* mutant: drafts are fetched as well
FetchEveryPost ==
    /\ reader.fetching
    /\ LET db == [s \in Slug |-> IF post[s].status # None THEN post[s].text ELSE NoText] IN
       reader' = [reader EXCEPT !.fetching = FALSE, !.cache = db,
                     !.view = IF reader.at = "list" THEN MergePosts(reader.static, db) ELSE @]
    /\ UNCHANGED <<post, public, page, calls>>
\* The answer is kept, also the [] of an error.  A list shows it.  A page that waited for
\* its post finds none, or it finds one and then calls more hooks than before, which
\* React does not allow.
FetchDBPosts ==
    /\ reader.fetching
    /\ \E db \in {[s \in Slug |-> IF post[s].status = "published" THEN post[s].text ELSE NoText], NoPosts} :
          LET r == [reader EXCEPT !.fetching = FALSE, !.cache = db] IN
          reader' = CASE reader.at = "list" -> [r EXCEPT !.view = MergePosts(reader.static, db)]
                      [] reader.status = "loading" ->
                            [r EXCEPT !.status = IF db[reader.at] = NoText THEN "missing" ELSE "crashed"]
                      [] OTHER -> r
    /\ UNCHANGED <<post, public, page, calls>>

-----------------------------------------------------------------------------
\* Nothing has been written yet.
Init ==
    /\ post = [s \in Slug |-> NoRow]
    /\ public = {}
    /\ reader \in {Visit(static, s) : static \in SUBSET Slug, s \in Slug}
    /\ page = [t \in Tab |-> Fresh("all")]
    /\ calls = [t \in Tab |-> {LoadAll("all")}]

Handle(t) ==
    \/ OpenList(t) \/ \E filter \in Filter : SetFilter(t, filter)
    \/ \E s \in Slug : TogglePublish(t, s) \/ HandleDelete(t, s) \/ OpenEditor(t, s)
    \/ \E s \in Slug, text \in Text : Type(t, s, text)
    \/ HandleImageUpload(t) \/ \E status \in {"draft", "published"} : HandleSave(t, status)
Serve(t) == Loaded(t) \/ Toggled(t) \/ Deleted(t) \/ Opened(t) \/ Uploaded(t) \/ Saved(t)
Read == VisitList \/ (\E s \in Slug : VisitPost(s)) \/ Reload \/ FetchDBPosts

Next == (\E t \in Tab : Handle(t) \/ Serve(t)) \/ Read

\* Every call is answered in the end, whatever else is.
Spec ==
    /\ Init /\ [][Next]_vars
    /\ \A t \in Tab : WF_vars(Loaded(t)) /\ WF_vars(Deleted(t)) /\ WF_vars(Uploaded(t)) /\ WF_vars(Saved(t))

-----------------------------------------------------------------------------
\* The types.
TypeOK ==
    /\ post \in [Slug -> Row]
    /\ public \subseteq Slug \X Text
    /\ reader \in Reader
    /\ page \in [Tab -> Page]

\* What the website shows of a post was published by an editor, in those words: a draft
\* is never shown, although the same row holds the published text and then the draft.
DraftsStayHidden ==
    \A s \in Slug :
        /\ reader.view[s] \notin {NoText, File} => <<s, reader.view[s]>> \in public
        /\ reader.cache[s] # NoText => <<s, reader.cache[s]>> \in public

\* What is locked waits for an answer.
Waiting(t, fns) == \E c \in calls[t] : c.fn \in fns /\ c.here
LocksAreTrue ==
    \A t \in Tab :
        IF page[t].at = "list"
        THEN /\ page[t].loading => Waiting(t, {"load"})
             /\ page[t].deleting # None => Waiting(t, {"delete"})
        ELSE /\ page[t].saving => Waiting(t, {"save"})
             /\ page[t].uploading => Waiting(t, {"upload"})

Locked(t, control) ==
    IF page[t].at = "list"
    THEN IF control = "form" THEN page[t].deleting # None ELSE page[t].loading
    ELSE IF control = "form" THEN page[t].saving ELSE page[t].uploading
=============================================================================
