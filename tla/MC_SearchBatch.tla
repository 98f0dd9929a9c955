---------------------------- MODULE MC_SearchBatch ----------------------------
\* The backends of build_search_backends, in its order, for TLC; bing stands for a
\* name no backend has.
EXTENDS BatchRefinement

CONSTANTS bing, google, searxng, serper

AllBackends == <<google, searxng, serper>>

TwoBackends == <<google, serper>>
===============================================================================
