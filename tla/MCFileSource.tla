---------------------------- MODULE MCFileSource ----------------------------
EXTENDS FileSource

(* Property maps and files: each check of Configure failing alone, the     *)
(* Stat outcomes, a relative path resolved or not, with and without an     *)
(* interval.                                                               *)
MCConfigs ==
    [decodes : BOOLEAN, fileType : {"", "json", "csv"},
     path : {"", "absolute", "relative"}, fileName : {"", "data.json"},
     locFound : BOOLEAN, stat : {"regular", "dir", "missing", "denied"},
     interval : {0, 1000}]

=============================================================================
