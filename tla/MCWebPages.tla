----------------------------- MODULE MCWebPages -----------------------------
\* TLC instance of WebPages: two filters, groups and templates, two requests
\* under way, and one session of the template assistant.
EXTENDS WebPages
=============================================================================
