----------------------------- MODULE ResultPage -----------------------------
(***************************************************************************)
(* A Google results page and what is read off it: the interstitials that   *)
(* come instead of results, the layouts a result may be marked up in, the  *)
(* links Google wraps (src/app/services/search/serp_parser.py, google.py), *)
(* and the domains a person has blocked (src/app/services/pipelines.py).   *)
(*                                                                         *)
(* A page is, per selector in the order they are tried, the containers     *)
(* that match it.  A container is its first link and whether it has a      *)
(* title; titles and snippets go with their result and are left out.       *)
(***************************************************************************)
EXTENDS PageText

CONSTANTS
    Url,
    Domain,
    Host,
    HostOf,        \* the host of each URL, or None when it is malformed
    Within         \* the domains each host is, or is a subdomain of

ASSUME ResultPageAssumption ==
    /\ None \notin Url \cup Domain \cup Host
    /\ HostOf \in [Url -> Host \cup {None}]
    /\ Within \in [Host -> SUBSET Domain]

-------------------------------------------------------------------------------
\* How a container links: not at all, straight to an address, through Google's own
\* redirect, to a page of Google, or in a way no absolute http address has.
Via == {"none", "direct", "redirect", "internal", "relative", "other_scheme"}

Container == [via : Via, to : Url \cup {None}, title : BOOLEAN]

\* unwrap_google_redirect: a redirect's target is taken as it is, if it has one.
Unwrap(node) == IF node.via \in {"direct", "redirect"} THEN node.to ELSE None

\* _parse_result.
IsResult(node) == Unwrap(node) # None /\ node.title

\* Mutant: an address that came before is listed again.
Listed_Twice(urls, node, most) ==
    IF ~ IsResult(node) \/ Len(urls) >= most THEN urls ELSE Append(urls, Unwrap(node))

\* One turn of parse_google_serp's inner loop.
Listed(urls, node, most) ==
    IF ~ IsResult(node) \/ Unwrap(node) \in ToSet(urls) \/ Len(urls) >= most THEN urls
    ELSE Append(urls, Unwrap(node))

\* One selector's results.
LayoutUrls(layout, most) ==
    FoldLeft(LAMBDA urls, node : Listed(urls, node, most), <<>>, layout)

\* parse_google_serp: the first selector with any result, ranked from one.
Parse(layouts, most) ==
    LET found == SelectInSeq(layouts, LAMBDA layout : LayoutUrls(layout, most) # <<>>)
        urls == IF found = 0 THEN <<>> ELSE LayoutUrls(layouts[found], most)
    IN  [i \in DOMAIN urls |-> [rank |-> i, url |-> urls[i]]]

\* detect_block: a challenge is told before a consent wall.
Block(page) ==
    IF "captcha" \in page.markers THEN "captcha"
    ELSE IF "consent" \in page.markers THEN "consent" ELSE None

-------------------------------------------------------------------------------
\* _blocked_for: a query restricted to a site gets that site's results.
BlockedFor(blocked, site) ==
    IF site = None THEN blocked ELSE blocked \ Within[site]

\* _host and _within_any; an address without a host is nobody's blocked site.
Hidden(url, blocked) == HostOf[url] # None /\ Within[HostOf[url]] \cap blocked # {}

\* _make_query_runner's filter: the results keep the ranks they came with.
Shown(results, blocked, site) ==
    Among(results, {item \in ToSet(results) : ~ Hidden(item.url, BlockedFor(blocked, site))})
===============================================================================
