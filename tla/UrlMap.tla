------------------------------- MODULE UrlMap -------------------------------
(***************************************************************************)
(* URLMap (urlmap.py): a dictionary from URL prefixes to applications, kept  *)
(* as a sorted list, that dispatches a request to the first that matches.    *)
(*                                                                           *)
(* A path is the sequence of what stands after each of its slashes, so that  *)
(* "" is <<>>, "/" is <<"">> and "/a//b/" is <<"a", "", "b", "">>.           *)
(***************************************************************************)
EXTENDS Subsequences, SequencesExt

CONSTANTS
    Keys,      \* URLs given to the map: [domain |-> None, <<host>> or <<host, port>>, url |-> a path]
    Requests,  \* [host |-> ..., port |-> ..., path |-> a path], as __call__ splits the Host header
    Apps,      \* applications
    DomainRank, \* the order of the domains as strings
    MaxApps,   \* bound on the applications in the map
    None       \* no domain, and the application that deletes

VARIABLES
    applications,  \* the list of [domain, url, app]
    mapping        \* history: what was last set for a normalised URL

urlmapVars == <<applications, mapping>>

\* normalize_url of a path: runs of slashes become one; trim also drops those
\* at the end.
NormalPath(path, trim) ==
    LET names == ElementsAt(path, {i \in DOMAIN path : path[i] # ""})
    IN  IF ~trim /\ path # <<>> /\ Last(path) = "" THEN Append(names, "") ELSE names

\* normalize_url of a key.
NormalUrl(key) == [domain |-> key.domain, url |-> NormalPath(key.url, TRUE)]

UrlOf(entry) == [domain |-> entry.domain, url |-> entry.url]

\* A mutant: the longest URL first, of whichever domain.
BeforePlain(a, b) == Len(a.url) > Len(b.url)

\* The sort key: the domain, none last, and then the longest URL.
Before(a, b) ==
    IF a.domain = b.domain THEN Len(a.url) > Len(b.url)
    ELSE b.domain = None \/ (a.domain # None /\ DomainRank[a.domain] < DomainRank[b.domain])

\* How the list may be sorted.  Of those that the key does not tell apart at
\* most one answers a request.
Orders(apps) ==
    {order \in [DOMAIN apps -> DOMAIN apps] :
        \A i, j \in DOMAIN apps :
            i < j => order[i] # order[j] /\ ~Before(apps[order[j]], apps[order[i]])}
SortApps(apps) == {[i \in DOMAIN apps |-> apps[order[i]]] : order \in Orders(apps)}

\* __delitem__, when there is an entry: the first with this URL.
Without(apps, u) == RemoveFirstMatch(apps, LAMBDA entry : UrlOf(entry) = u)

-----------------------------------------------------------------------------

UrlMapInit == applications = <<>> /\ mapping = [u \in {NormalUrl(k) : k \in Keys} |-> None]

\* __setitem__ with an application.
SetItem(key, app) ==
    LET u == NormalUrl(key)
    IN  /\ Len(Without(applications, u)) < MaxApps
        /\ applications' \in SortApps(Append(Without(applications, u),
                                             [domain |-> u.domain, url |-> u.url, app |-> app]))
        /\ mapping' = [mapping EXCEPT ![u] = app]

\* __setitem__ with None, and __delitem__ (a KeyError changes nothing).
DelItem(key) ==
    /\ applications' = Without(applications, NormalUrl(key))
    /\ mapping' = [mapping EXCEPT ![NormalUrl(key)] = None]

UrlMapNext == \E key \in Keys : DelItem(key) \/ \E app \in Apps : SetItem(key, app)

UrlMapSpec == UrlMapInit /\ [][UrlMapNext]_urlmapVars

-----------------------------------------------------------------------------

DomainMatches(entry, req) == entry.domain \in {None, <<req.host>>, <<req.host, req.port>>}

\* path_info == app_url or path_info.startswith(app_url + '/')
Matches(entry, req) ==
    DomainMatches(entry, req) /\ IsPrefix(entry.url, NormalPath(req.path, FALSE))

\* __call__: what is called with which SCRIPT_NAME (relative to the one that
\* came in) and PATH_INFO.
Dispatched(req) ==
    LET path == NormalPath(req.path, FALSE)
        i == SelectInSeq(applications, LAMBDA entry : Matches(entry, req))
    IN  IF i = 0 THEN [app |-> None, domain |-> None, script_name |-> <<>>, path_info |-> req.path]
        ELSE [app |-> applications[i].app, domain |-> applications[i].domain,
              script_name |-> applications[i].url,
              path_info |-> SubSeq(path, Len(applications[i].url) + 1, Len(path))]

\* The applications that a dictionary of the same contents has for a request.
Candidates(req) == {u \in DOMAIN mapping : mapping[u] # None /\ Matches(u, req)}

\* Whatever was set, replaced and deleted in whichever order, a request goes to
\* the application last set for the longest prefix of its path under the domain
\* that answers, to one for any domain only if none is for this one, and to the
\* not found application only if there is none at all; SCRIPT_NAME and PATH_INFO
\* together are the path (class URLMap, urlmap.py 72-88).
MostSpecificAnswers ==
    \A req \in Requests :
        LET d == Dispatched(req)  u == [domain |-> d.domain, url |-> d.script_name]
        IN  IF d.app = None THEN Candidates(req) = {}
            ELSE /\ u \in Candidates(req) /\ mapping[u] = d.app
                 /\ d.script_name \o d.path_info = NormalPath(req.path, FALSE)
                 /\ \A c \in Candidates(req) :
                       /\ c.domain = d.domain => Len(c.url) <= Len(d.script_name)
                       /\ d.domain = None => c.domain = None
=============================================================================
