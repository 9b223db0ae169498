---------------------------- MODULE MySqlOptions ----------------------------
(***************************************************************************)
(* The options of a MySQL connection (options/), and what the connection   *)
(* makes of its character set and collation (collation.rs,                 *)
(* MySqlStream::connect): one byte of the handshake.  An Option is a       *)
(* sequence of at most one element.                                        *)
(***************************************************************************)
EXTENDS Values, SequencesExt

\* enum Collation: every collation with its id, which fits the byte it is sent in
Collation == [
    armscii8_bin |-> 64, armscii8_general_ci |-> 32, ascii_bin |-> 65, ascii_general_ci |-> 11,
    big5_bin |-> 84, big5_chinese_ci |-> 1, binary |-> 63, cp1250_bin |-> 66,
    cp1250_croatian_ci |-> 44, cp1250_czech_cs |-> 34, cp1250_general_ci |-> 26,
    cp1250_polish_ci |-> 99, cp1251_bin |-> 50, cp1251_bulgarian_ci |-> 14,
    cp1251_general_ci |-> 51, cp1251_general_cs |-> 52, cp1251_ukrainian_ci |-> 23,
    cp1256_bin |-> 67, cp1256_general_ci |-> 57, cp1257_bin |-> 58, cp1257_general_ci |-> 59,
    cp1257_lithuanian_ci |-> 29, cp850_bin |-> 80, cp850_general_ci |-> 4, cp852_bin |-> 81,
    cp852_general_ci |-> 40, cp866_bin |-> 68, cp866_general_ci |-> 36, cp932_bin |-> 96,
    cp932_japanese_ci |-> 95, dec8_bin |-> 69, dec8_swedish_ci |-> 3, eucjpms_bin |-> 98,
    eucjpms_japanese_ci |-> 97, euckr_bin |-> 85, euckr_korean_ci |-> 19, gb18030_bin |-> 249,
    gb18030_chinese_ci |-> 248, gb18030_unicode_520_ci |-> 250, gb2312_bin |-> 86,
    gb2312_chinese_ci |-> 24, gbk_bin |-> 87, gbk_chinese_ci |-> 28, geostd8_bin |-> 93,
    geostd8_general_ci |-> 92, greek_bin |-> 70, greek_general_ci |-> 25, hebrew_bin |-> 71,
    hebrew_general_ci |-> 16, hp8_bin |-> 72, hp8_english_ci |-> 6, keybcs2_bin |-> 73,
    keybcs2_general_ci |-> 37, koi8r_bin |-> 74, koi8r_general_ci |-> 7, koi8u_bin |-> 75,
    koi8u_general_ci |-> 22, latin1_bin |-> 47, latin1_danish_ci |-> 15, latin1_general_ci |-> 48,
    latin1_general_cs |-> 49, latin1_german1_ci |-> 5, latin1_german2_ci |-> 31,
    latin1_spanish_ci |-> 94, latin1_swedish_ci |-> 8, latin2_bin |-> 77, latin2_croatian_ci |-> 27,
    latin2_czech_cs |-> 2, latin2_general_ci |-> 9, latin2_hungarian_ci |-> 21, latin5_bin |-> 78,
    latin5_turkish_ci |-> 30, latin7_bin |-> 79, latin7_estonian_cs |-> 20,
    latin7_general_ci |-> 41, latin7_general_cs |-> 42, macce_bin |-> 43, macce_general_ci |-> 38,
    macroman_bin |-> 53, macroman_general_ci |-> 39, sjis_bin |-> 88, sjis_japanese_ci |-> 13,
    swe7_bin |-> 82, swe7_swedish_ci |-> 10, tis620_bin |-> 89, tis620_thai_ci |-> 18,
    ucs2_bin |-> 90, ucs2_croatian_ci |-> 149, ucs2_czech_ci |-> 138, ucs2_danish_ci |-> 139,
    ucs2_esperanto_ci |-> 145, ucs2_estonian_ci |-> 134, ucs2_general_ci |-> 35,
    ucs2_general_mysql500_ci |-> 159, ucs2_german2_ci |-> 148, ucs2_hungarian_ci |-> 146,
    ucs2_icelandic_ci |-> 129, ucs2_latvian_ci |-> 130, ucs2_lithuanian_ci |-> 140,
    ucs2_persian_ci |-> 144, ucs2_polish_ci |-> 133, ucs2_roman_ci |-> 143,
    ucs2_romanian_ci |-> 131, ucs2_sinhala_ci |-> 147, ucs2_slovak_ci |-> 141,
    ucs2_slovenian_ci |-> 132, ucs2_spanish_ci |-> 135, ucs2_spanish2_ci |-> 142,
    ucs2_swedish_ci |-> 136, ucs2_turkish_ci |-> 137, ucs2_unicode_520_ci |-> 150,
    ucs2_unicode_ci |-> 128, ucs2_vietnamese_ci |-> 151, ujis_bin |-> 91, ujis_japanese_ci |-> 12,
    utf16_bin |-> 55, utf16_croatian_ci |-> 122, utf16_czech_ci |-> 111, utf16_danish_ci |-> 112,
    utf16_esperanto_ci |-> 118, utf16_estonian_ci |-> 107, utf16_general_ci |-> 54,
    utf16_german2_ci |-> 121, utf16_hungarian_ci |-> 119, utf16_icelandic_ci |-> 102,
    utf16_latvian_ci |-> 103, utf16_lithuanian_ci |-> 113, utf16_persian_ci |-> 117,
    utf16_polish_ci |-> 106, utf16_roman_ci |-> 116, utf16_romanian_ci |-> 104,
    utf16_sinhala_ci |-> 120, utf16_slovak_ci |-> 114, utf16_slovenian_ci |-> 105,
    utf16_spanish_ci |-> 108, utf16_spanish2_ci |-> 115, utf16_swedish_ci |-> 109,
    utf16_turkish_ci |-> 110, utf16_unicode_520_ci |-> 123, utf16_unicode_ci |-> 101,
    utf16_vietnamese_ci |-> 124, utf16le_bin |-> 62, utf16le_general_ci |-> 56, utf32_bin |-> 61,
    utf32_croatian_ci |-> 181, utf32_czech_ci |-> 170, utf32_danish_ci |-> 171,
    utf32_esperanto_ci |-> 177, utf32_estonian_ci |-> 166, utf32_general_ci |-> 60,
    utf32_german2_ci |-> 180, utf32_hungarian_ci |-> 178, utf32_icelandic_ci |-> 161,
    utf32_latvian_ci |-> 162, utf32_lithuanian_ci |-> 172, utf32_persian_ci |-> 176,
    utf32_polish_ci |-> 165, utf32_roman_ci |-> 175, utf32_romanian_ci |-> 163,
    utf32_sinhala_ci |-> 179, utf32_slovak_ci |-> 173, utf32_slovenian_ci |-> 164,
    utf32_spanish_ci |-> 167, utf32_spanish2_ci |-> 174, utf32_swedish_ci |-> 168,
    utf32_turkish_ci |-> 169, utf32_unicode_520_ci |-> 182, utf32_unicode_ci |-> 160,
    utf32_vietnamese_ci |-> 183, utf8_bin |-> 83, utf8_croatian_ci |-> 213, utf8_czech_ci |-> 202,
    utf8_danish_ci |-> 203, utf8_esperanto_ci |-> 209, utf8_estonian_ci |-> 198,
    utf8_general_ci |-> 33, utf8_general_mysql500_ci |-> 223, utf8_german2_ci |-> 212,
    utf8_hungarian_ci |-> 210, utf8_icelandic_ci |-> 193, utf8_latvian_ci |-> 194,
    utf8_lithuanian_ci |-> 204, utf8_persian_ci |-> 208, utf8_polish_ci |-> 197,
    utf8_roman_ci |-> 207, utf8_romanian_ci |-> 195, utf8_sinhala_ci |-> 211,
    utf8_slovak_ci |-> 205, utf8_slovenian_ci |-> 196, utf8_spanish_ci |-> 199,
    utf8_spanish2_ci |-> 206, utf8_swedish_ci |-> 200, utf8_tolower_ci |-> 76,
    utf8_turkish_ci |-> 201, utf8_unicode_520_ci |-> 214, utf8_unicode_ci |-> 192,
    utf8_vietnamese_ci |-> 215, utf8mb4_0900_ai_ci |-> 255, utf8mb4_bin |-> 46,
    utf8mb4_croatian_ci |-> 245, utf8mb4_czech_ci |-> 234, utf8mb4_danish_ci |-> 235,
    utf8mb4_esperanto_ci |-> 241, utf8mb4_estonian_ci |-> 230, utf8mb4_general_ci |-> 45,
    utf8mb4_german2_ci |-> 244, utf8mb4_hungarian_ci |-> 242, utf8mb4_icelandic_ci |-> 225,
    utf8mb4_latvian_ci |-> 226, utf8mb4_lithuanian_ci |-> 236, utf8mb4_persian_ci |-> 240,
    utf8mb4_polish_ci |-> 229, utf8mb4_roman_ci |-> 239, utf8mb4_romanian_ci |-> 227,
    utf8mb4_sinhala_ci |-> 243, utf8mb4_slovak_ci |-> 237, utf8mb4_slovenian_ci |-> 228,
    utf8mb4_spanish_ci |-> 231, utf8mb4_spanish2_ci |-> 238, utf8mb4_swedish_ci |-> 232,
    utf8mb4_turkish_ci |-> 233, utf8mb4_unicode_520_ci |-> 246, utf8mb4_unicode_ci |-> 224,
    utf8mb4_vietnamese_ci |-> 247]

\* enum CharSet, each with its default_collation
default_collation == [
    armscii8 |-> "armscii8_general_ci", ascii |-> "ascii_general_ci", big5 |-> "big5_chinese_ci",
    binary |-> "binary", cp1250 |-> "cp1250_general_ci", cp1251 |-> "cp1251_general_ci",
    cp1256 |-> "cp1256_general_ci", cp1257 |-> "cp1257_general_ci", cp850 |-> "cp850_general_ci",
    cp852 |-> "cp852_general_ci", cp866 |-> "cp866_general_ci", cp932 |-> "cp932_japanese_ci",
    dec8 |-> "dec8_swedish_ci", eucjpms |-> "eucjpms_japanese_ci", euckr |-> "euckr_korean_ci",
    gb18030 |-> "gb18030_chinese_ci", gb2312 |-> "gb2312_chinese_ci", gbk |-> "gbk_chinese_ci",
    geostd8 |-> "geostd8_general_ci", greek |-> "greek_general_ci", hebrew |-> "hebrew_general_ci",
    hp8 |-> "hp8_english_ci", keybcs2 |-> "keybcs2_general_ci", koi8r |-> "koi8r_general_ci",
    koi8u |-> "koi8u_general_ci", latin1 |-> "latin1_swedish_ci", latin2 |-> "latin2_general_ci",
    latin5 |-> "latin5_turkish_ci", latin7 |-> "latin7_general_ci", macce |-> "macce_general_ci",
    macroman |-> "macroman_general_ci", sjis |-> "sjis_japanese_ci", swe7 |-> "swe7_swedish_ci",
    tis620 |-> "tis620_thai_ci", ucs2 |-> "ucs2_general_ci", ujis |-> "ujis_japanese_ci",
    utf16 |-> "utf16_general_ci", utf16le |-> "utf16le_general_ci", utf32 |-> "utf32_general_ci",
    utf8 |-> "utf8_unicode_ci", utf8mb4 |-> "utf8mb4_unicode_ci"]

\* FromStr of Collation and CharSet; as_str is its inverse
collation_from_str(name) == IF name \in DOMAIN Collation THEN {name} ELSE {}

charset_from_str(name) == IF name \in DOMAIN default_collation THEN {name} ELSE {}

-----------------------------------------------------------------------------
\* MySqlConnectOptions::new
MyDefaults ==
    [port |-> "3306", host |-> "localhost", socket |-> <<>>, username |-> "root", password |-> <<>>,
     database |-> <<>>, charset |-> "utf8mb4", collation |-> <<>>, ssl_mode |-> "DISABLED",
     ssl_ca |-> <<>>, statement_cache_capacity |-> "100"]

MyPlain == [charset |-> "charset", ssl_mode |-> "ssl_mode", capacity |-> "statement_cache_capacity"]
MyOptional == [collation |-> "collation", ssl_ca |-> "ssl_ca", socket |-> "socket"]

\* FromStr of the value: MySqlSslMode, usize
MyParses(key, v) ==
    /\ key = "ssl_mode" => v \in {"DISABLED", "PREFERRED", "REQUIRED", "VERIFY_CA", "VERIFY_IDENTITY"}
    /\ key = "capacity" => v \in {"0", "100"}

SetMyParam(o, key, v) ==
    CASE key \in DOMAIN MyPlain -> [o EXCEPT ![MyPlain[key]] = v]
      [] key \in DOMAIN MyOptional -> [o EXCEPT ![MyOptional[key]] = <<v>>]
      [] OTHER -> o

MyoStart == [o |-> MyDefaults, done |-> 0, sent |-> <<>>]

\* MySqlConnectOptions::from_str up to the query
MyoUrl ==
    /\ at = "myo url"
    /\ IF job.url.parses /\ "not utf-8" \notin Range(job.url.username \o job.url.password)
       THEN /\ at' = "myo params"
            /\ mem' = [mem EXCEPT !.o.host = IF job.url.host = <<>> THEN @ ELSE job.url.host[1],
                                  !.o.port = IF job.url.port = <<>> THEN @ ELSE job.url.port[1],
                                  !.o.username = IF job.url.username = <<>> THEN @ ELSE job.url.username[1],
                                  !.o.password = IF job.url.password = <<>> THEN @ ELSE job.url.password,
                                  !.o.database = IF job.url.path = <<>> THEN @ ELSE job.url.path]
       ELSE at' = "myo err" /\ UNCHANGED mem
    /\ UNCHANGED job

MyoParam ==
    /\ at = "myo params"
    /\ mem.done < Len(job.params)
    /\ LET key == job.params[mem.done + 1][1]
           v == job.params[mem.done + 1][2]
       IN  IF MyParses(key, v)
           THEN at' = at /\ mem' = [mem EXCEPT !.o = SetMyParam(@, key, v), !.done = @ + 1]
           ELSE at' = "myo err" /\ UNCHANGED mem
    /\ UNCHANGED job

\* A mutant: the default collation wins over the one asked for.
CollationOf_Default(o) ==
    {default_collation[cs] : cs \in charset_from_str(o.charset)}

\* MySqlStream::connect: the character set must be known in any case
CollationOf(o) ==
    {c \in IF o.collation = <<>> THEN {default_collation[cs] : cs \in charset_from_str(o.charset)}
           ELSE collation_from_str(o.collation[1]) : charset_from_str(o.charset) # {}}

MyoConnect ==
    /\ at = "myo params"
    /\ mem.done = Len(job.params)
    /\ IF CollationOf(mem.o) = {} THEN at' = "myo err" /\ UNCHANGED mem
       ELSE \E c \in CollationOf(mem.o) :
              /\ at' = "myo sent"
              /\ mem' = [mem EXCEPT !.sent = <<[peer |-> IF mem.o.socket # <<>> THEN mem.o.socket[1]
                                                         ELSE mem.o.host, collation |-> Collation[c]]>>]
    /\ UNCHANGED job

MyoNext == MyoUrl \/ MyoParam \/ MyoConnect

-----------------------------------------------------------------------------
MyLastOf(key, before) ==
    LET given == {i \in DOMAIN job.params : job.params[i][1] = key}
    IN  IF given = {} THEN before ELSE job.params[CHOOSE i \in given : \A j \in given : j <= i][2]

\* The byte of the handshake is the id of no other collation than the one
\* asked for last, or the default one of the character set asked for last (of
\* utf8mb4 if none was); the connection goes to the socket asked for, else to
\* the host of the URL.  Refused are a text that is no URL, a user or a
\* password that is no UTF-8 and an unknown name or value, and nothing else.
MyOptionsAsAsked ==
    /\ at = "myo sent" =>
        LET named == {n \in DOMAIN Collation : Collation[n] = mem.sent[1].collation}
            charset == MyLastOf("charset", "utf8mb4")
            host == IF job.url.host = <<>> THEN "localhost" ELSE job.url.host[1]
        IN  /\ mem.sent[1].collation \in 1..255
            /\ named = {MyLastOf("collation", default_collation[charset])}
            /\ mem.sent[1].peer = MyLastOf("socket", host)
            /\ job.url.parses /\ mem.o.username # "not utf-8"
    /\ at = "myo err" =>
        \/ \E p \in Range(job.params) : ~MyParses(p[1], p[2])
        \/ ~job.url.parses \/ "not utf-8" \in Range(job.url.username \o job.url.password)
        \/ MyLastOf("charset", "utf8mb4") \notin DOMAIN default_collation
        \/ MyLastOf("collation", "binary") \notin DOMAIN Collation
=============================================================================
