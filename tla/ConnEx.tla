-------------------------------- MODULE ConnEx --------------------------------
(***************************************************************************)
(* The options of a connection (conn_ex.go) and the encoding of a response *)
(* they lead to (sendBack in handler_socket.go): which compressor the      *)
(* server announces, which one it uses, and what the client can decode.    *)
(***************************************************************************)
EXTENDS Integers

(* compression_ex_read_config: the compressors the configuration names.     *)
Compressors == SUBSET {"mp-flate", "mp-snappy"}

(* 0 for an address of this host, 1 for every other.  The code knows a      *)
(* distance 2 (WAN) that GetIPDistance never returns.                       *)
Distances == {0, 1}

(* conninfo: comp is nil or the compressor whose name is announced.         *)
Conninfo == [comp : {"nil", "mp-flate", "mp-snappy"}, threshold : Int]

(* make_conn_ex. *)
make_conn_ex(distance, compressors, threshold) ==
  LET thr == IF distance > 0 THEN threshold ELSE 0 IN
  [comp |-> IF distance > 0 /\ "mp-flate" \in compressors /\ thr # 0
            THEN "mp-flate" ELSE "nil",
   threshold |-> thr]

(* handle_conn_ex: the client says whether it decodes snappy and from which *)
(* size on it wants compression.                                            *)
handle_conn_ex(conn_ex, distance, compressors, snappy, threshold) ==
  LET asked == IF snappy /\ "mp-snappy" \in compressors THEN "mp-snappy" ELSE conn_ex.comp
      comp  == IF (asked = "nil" \/ distance > 1) /\ "mp-flate" \in compressors
               THEN "mp-flate" ELSE asked
  IN  IF distance = 0 THEN conn_ex
      ELSE [comp |-> IF threshold = 0 THEN "nil" ELSE comp, threshold |-> threshold]

Plain == [codec |-> "none", label |-> "none"]
Crash == [codec |-> "crash", label |-> "none"]

(* Mutant: a response that did not compress keeps the label. *)
EncodingsLabelled(conn_ex, compressors, length) ==
  IF conn_ex.threshold <= 0 \/ length <= conn_ex.threshold THEN {Plain}
  ELSE IF conn_ex.comp = "nil" THEN {[codec |-> "gzip", label |-> "gzip"]}
  ELSE IF "mp-flate" \notin compressors THEN {Crash}
  ELSE {[codec |-> c, label |-> conn_ex.comp] : c \in {"none", "mp-flate"}}

(* The encodings sendBack may choose for a response of that length: how the *)
(* body is coded and what Content-Encoding says.  Multipart compression     *)
(* always runs on compressor_flate, nil unless configured, and may find     *)
(* that it does not pay.                                                    *)
Encodings(conn_ex, compressors, length) ==
  IF conn_ex.threshold <= 0 \/ length <= conn_ex.threshold THEN {Plain}
  ELSE IF conn_ex.comp = "nil" THEN {[codec |-> "gzip", label |-> "gzip"]}
  ELSE IF "mp-flate" \notin compressors THEN {Crash}
  ELSE {Plain, [codec |-> "mp-flate", label |-> conn_ex.comp]}

(* The client decodes what the label names. *)
Readable(e) == e.codec = e.label
=============================================================================
