---------------------------- MODULE MCHttpConnection ----------------------------
(***************************************************************************)
(* Requests for the runs of HttpConnection.                                *)
(***************************************************************************)
EXTENDS HttpConnection

eol == U("eol", 0)
keep == U("keep", 0)
host == U("host", 0)

\* GET /add with arguments, GET of something else without a Connection header,
\* POST /add with a body.
MCPolite ==
    {<<U("GET", 1), U("args", 1), eol, keep, eol, eol>>,
     <<U("GET", 0), eol, host, eol, eol>>,
     <<U("POST", 1), eol, U("len", 1), eol, keep, eol, eol, U("body", 2)>>}

\* An unknown method in less than the least length, a POST whose only
\* Content-Length stands in what would be its body, and a header without an end:
\* two of these fill the buffer.
MCOdd ==
    {<<U("PUT", 1), eol, eol>>,
     <<U("POST", 1), U("args", 1), eol, eol, U("len", 1), eol>>,
     <<U("GET", 0), eol, host, eol, host, eol>>}

MCModes ==
    {<<"serial", FALSE>>, <<"serial", TRUE>>, <<"eager", TRUE>>, <<"odd", TRUE>>}
===============================================================================
